---- MODULE Spec2Model ----
(***************************************************************************)
(* A state-machine model of FinAssist (kosuri-indu/FinAssist): the Groq    *)
(* rate limiter, the word-overlap semantic cache and the v2 chat pipeline  *)
(* (agents/chat_agent_v2.py), the bill recurrence computation              *)
(* (agents/reminder_agent.py, app.py), the investment clarification gate   *)
(* (agents/investment_agent.py) and the /api authentication gate (app.py). *)
(*                                                                         *)
(* Each subsystem has its own specification over the shared variables:     *)
(*   SpecLimiter  request threads sharing the global groq_limiter          *)
(*   SpecChat     run_chat_agent_v2 over the cache, the log, the limiter   *)
(*   SpecSim      SimpleSemanticCache.similarity_score on bounded texts    *)
(*   SpecDue      _compute_next_due_from and its re-application            *)
(*   SpecInvest   investment_advice behind get_clarification_questions     *)
(*   SpecAuth     the /api/* routes behind get_current_user                *)
(***************************************************************************)
EXTENDS Integers, Sequences, FiniteSets, TLC

VARIABLES
    now,                 \* datetime.utcnow(), in seconds
    requests_per_minute, \* GroqRateLimiter.requests_per_minute (deque of timestamps)
    requests_per_day,    \* GroqRateLimiter.requests_per_day (deque of timestamps)
    pc,                  \* per request thread: position in the check/record call site
    chk,                 \* observation of the last check_limits call
    q1, q2,              \* similarity_score's two question texts
    sim,                 \* similarity_score's results for (q1, q2) and (q2, q1)
    groq_api_key,        \* whether GROQ_API_KEY is set in the environment
    chat_cache,          \* the chat_cache table: None when the table does not exist
    chat_logs,           \* the chat_logs table, in insertion order
    llm_calls,           \* chat completions requested from the provider so far
    chat_out,            \* the last run_chat_agent_v2 call: its inputs and result
    last_fresh,          \* the last fresh (non-cached) successful answer, or None
    today,               \* datetime.utcnow() as a calendar datetime
    due_in,              \* _compute_next_due_from's arguments
    due_out,             \* its result, and the time it was computed at
    due_again,           \* the result of applying it to its own result
    invest_in,           \* investment_advice's arguments
    invest_out,          \* its result and the calls it made
    session_user_id,     \* session['user_id'], None when not logged in
    users,               \* ids of the rows of the users table
    db_writes,           \* database commits made by API handlers
    agent_runs,          \* agent invocations made by API handlers
    api_llm_calls,       \* LLM requests made on behalf of API handlers
    web_calls,           \* outbound HTTP and market-data requests
    api_requests,        \* API requests served so far
    resp,                \* the last API response and what the handler did
    transactions,        \* rows of the transactions table
    bills,               \* rows of the bills table
    categories,          \* rows of the categories table
    page,                \* the last page or form request and its outcome
    agent_results,       \* rows of the agent_results table, in insertion order
    agent_out,           \* the last agent run or read and its outcome
    wow_in,              \* the expense totals of the previous and the current week
    wow_out,             \* _local_insights' week_over_week_change for them
    ticker_in,           \* the text given as a ticker, NoText for None
    ticker_out,          \* what sanitize_ticker and is_valid_ticker made of it
    graph,               \* one invocation of the investor planning graph
    goc,                 \* per request thread: its get_or_create_category call
    chat1                \* the last /api/chat request and its run_chat_agent call

limiterVars == <<requests_per_minute, requests_per_day, pc, chk>>

simVars == <<q1, q2, sim>>

chatVars == <<groq_api_key, chat_cache, chat_logs, llm_calls, chat_out, last_fresh>>

dueVars == <<today, due_in, due_out, due_again>>

investVars == <<invest_in, invest_out>>

authVars == <<session_user_id, users, db_writes, agent_runs, api_llm_calls,
              web_calls, api_requests, resp>>

storeVars == <<transactions, bills, categories, page>>

agentVars == <<agent_results, agent_out>>

wowVars == <<wow_in, wow_out>>

tickerVars == <<ticker_in, ticker_out>>

lastVars == <<goc, chat1>>

afterStoreVars == <<agentVars, wowVars, tickerVars, graph, lastVars>>

laterVars == <<storeVars, afterStoreVars>>

vars == <<now, limiterVars, simVars, chatVars, dueVars, investVars, authVars, laterVars>>

None == "None"

----------------------------------------------------------------------------
(* Time.                                                                   *)

Minute == 60       \* timedelta(minutes=1), in seconds
Day == 86400       \* timedelta(days=1), in seconds

TickSeconds == 30  \* granularity at which the clock is observed
MaxTicks == 3      \* the clock is followed for MaxTicks observations
StartTime == 8 * Day

MaxTime == StartTime + MaxTicks * TickSeconds

Tick ==
    /\ now + TickSeconds <= MaxTime
    /\ now' = now + TickSeconds

----------------------------------------------------------------------------
(* GroqRateLimiter (agents/chat_agent_v2.py).                              *)

RPM_LIMIT == 25
RPD_LIMIT == 14000

Threads == {"t1", "t2"}
MaxRecords == 27   \* requests recorded in one run of the model

\* while q and now - q[0] > window: q.popleft()
RECURSIVE DropExpired(_, _, _)
DropExpired(q, t, window) ==
    IF q # <<>> /\ t - Head(q) > window
    THEN DropExpired(Tail(q), t, window)
    ELSE q

\* The number of timestamps of q that are at most `window` old at time t.
CountWithin(q, t, window) ==
    Cardinality({i \in DOMAIN q : t - q[i] <= window})

RpmMessage == <<"Rate limit", RPM_LIMIT, "requests per minute exceeded">>
RpdMessage == <<"Daily limit", RPD_LIMIT, "requests per day exceeded">>

\* check_limits on the cleaned queues: the pair (allowed, message).
check_limits_mut(rpm, rpd) ==
    IF Len(rpm) > RPM_LIMIT THEN <<FALSE, RpmMessage>>
    ELSE IF Len(rpd) >= RPD_LIMIT THEN <<FALSE, RpdMessage>>
    ELSE <<TRUE, "OK">>

check_limits(rpm, rpd) ==
    IF Len(rpm) >= RPM_LIMIT THEN <<FALSE, RpmMessage>>
    ELSE IF Len(rpd) >= RPD_LIMIT THEN <<FALSE, RpdMessage>>
    ELSE <<TRUE, "OK">>

\* The queues after check_limits' clean-up at time t.
CleanedMinute(t) == DropExpired(requests_per_minute, t, Minute)
CleanedDay(t) == DropExpired(requests_per_day, t, Day)

\* record_request: both queues get the current time appended.
record_request ==
    /\ requests_per_minute' = Append(requests_per_minute, now)
    /\ requests_per_day' = Append(requests_per_day, now)

NoCheck ==
    [called |-> FALSE, allowed |-> TRUE, msg |-> "OK", recent |-> 0,
     day_recent |-> 0, idle_for |-> 0, denied_before |-> FALSE]

\* What a check_limits call at time t saw and answered.
Observed(t, res) ==
    [called |-> TRUE, allowed |-> res[1], msg |-> res[2],
     recent |-> CountWithin(requests_per_minute, t, Minute),
     day_recent |-> CountWithin(requests_per_day, t, Day),
     idle_for |-> IF requests_per_day = <<>> THEN Day
                  ELSE t - requests_per_day[Len(requests_per_day)],
     denied_before |-> chk.denied_before \/ (chk.called /\ ~chk.allowed)]

InFlight == Cardinality({t \in Threads : pc[t] = "allowed"})

\* A request thread at the call site: can_proceed, limit_msg = check_limits();
\* a denied thread returns, an allowed one goes on to record_request.
LimiterCheck(t) ==
    /\ pc[t] = "idle"
    /\ Len(requests_per_day) + InFlight < MaxRecords
    /\ LET rpm == CleanedMinute(now)
           rpd == CleanedDay(now)
           res == check_limits(rpm, rpd)
       IN /\ requests_per_minute' = rpm
          /\ requests_per_day' = rpd
          /\ chk' = Observed(now, res)
          /\ pc' = [pc EXCEPT ![t] = IF res[1] THEN "allowed" ELSE "idle"]
    /\ UNCHANGED now

LimiterRecord(t) ==
    /\ pc[t] = "allowed"
    /\ record_request
    /\ pc' = [pc EXCEPT ![t] = "idle"]
    /\ UNCHANGED <<now, chk>>

LimiterInit ==
    /\ requests_per_minute = <<>>
    /\ requests_per_day = <<>>
    /\ pc = [t \in Threads |-> "idle"]
    /\ chk = NoCheck

----------------------------------------------------------------------------
(* SimpleSemanticCache (agents/chat_agent_v2.py). A text is a sequence of  *)
(* characters; a word is a maximal run of non-blank characters.            *)

SP == <<" ">>
W_what == <<"w", "h", "a", "t">>
W_whats == <<"w", "h", "a", "t", "'", "s">>
W_is == <<"i", "s">>
W_the == <<"t", "h", "e">>
W_a == <<"a">>
W_an == <<"a", "n">>
W_my == <<"m", "y">>
W_i == <<"i">>
W_me == <<"m", "e">>
W_can == <<"c", "a", "n">>
W_could == <<"c", "o", "u", "l", "d">>
W_would == <<"w", "o", "u", "l", "d">>
W_should == <<"s", "h", "o", "u", "l", "d">>
W_how == <<"h", "o", "w">>
W_when == <<"w", "h", "e", "n">>
W_where == <<"w", "h", "e", "r", "e">>
W_why == <<"w", "h", "y">>
W_much == <<"m", "u", "c", "h">>
W_many == <<"m", "a", "n", "y">>
W_balance == <<"b", "a", "l", "a", "n", "c", "e">>
W_current == <<"c", "u", "r", "r", "e", "n", "t">>
W_show == <<"s", "h", "o", "w">>
W_recent == <<"r", "e", "c", "e", "n", "t">>
W_bills == <<"b", "i", "l", "l", "s">>

\* stop_words, as written in normalize_question: 'how much' and 'how many'
\* are single entries containing a blank.
stop_words ==
    {W_what, W_is, W_the, W_a, W_an, W_my, W_i, W_me, W_can, W_could,
     W_would, W_should, W_how, W_when, W_where, W_why,
     W_how \o SP \o W_much, W_how \o SP \o W_many}

\* str.lower() on the characters the model draws from.
LowerChar(c) ==
    CASE c = "A" -> "a"
      [] c = "B" -> "b"
      [] c = "I" -> "i"
      [] OTHER -> c

lower(text) == [i \in DOMAIN text |-> LowerChar(text[i])]

IsSpace(c) == c = " "

\* str.split(): the words of the text, blanks separating, no empty words.
\* `word` is the word being read, `out` the words read so far.
RECURSIVE SplitFrom(_, _, _)
SplitFrom(text, word, out) ==
    IF text = <<>>
    THEN IF word = <<>> THEN out ELSE Append(out, word)
    ELSE IF IsSpace(Head(text))
         THEN SplitFrom(Tail(text), <<>>,
                        IF word = <<>> THEN out ELSE Append(out, word))
         ELSE SplitFrom(Tail(text), Append(word, Head(text)), out)

split(text) == SplitFrom(text, <<>>, <<>>)

SeqToSet(s) == {s[i] : i \in DOMAIN s}

\* words = set(text.lower().split()); return words - stop_words
normalize_question(text) == SeqToSet(split(lower(text))) \ stop_words

\* A float that is a ratio of two counts is kept as <<numerator, denominator>>.
FracEq(a, b) == a[1] * b[2] = b[1] * a[2]
FracLess(a, b) == a[1] * b[2] < b[1] * a[2]
FracLeq(a, b) == a[1] * b[2] <= b[1] * a[2]

similarity_score_by_first(x, y) ==
    LET words1 == normalize_question(x)
        words2 == normalize_question(y)
    IN IF words1 = {} \/ words2 = {}
       THEN <<0, 1>>
       ELSE <<Cardinality(words1 \cap words2), Cardinality(words1)>>

similarity_score_by_smaller(x, y) ==
    LET words1 == normalize_question(x)
        words2 == normalize_question(y)
        n1 == Cardinality(words1)
        n2 == Cardinality(words2)
    IN IF words1 = {} \/ words2 = {}
       THEN <<0, 1>>
       ELSE <<Cardinality(words1 \cap words2), IF n1 < n2 THEN n1 ELSE n2>>

\* Jaccard index of the two normalized word sets; 0.0 if either is empty.
similarity_score(x, y) ==
    LET words1 == normalize_question(x)
        words2 == normalize_question(y)
        intersection == Cardinality(words1 \cap words2)
        union == Cardinality(words1 \cup words2)
    IN IF words1 = {} \/ words2 = {}
       THEN <<0, 1>>
       ELSE IF union > 0 THEN <<intersection, union>> ELSE <<0, 1>>

Q_balance == W_what \o SP \o W_is \o SP \o W_my \o SP \o W_balance
Q_whats_balance == W_whats \o SP \o W_my \o SP \o W_current \o SP \o W_balance
Q_recent_bills == W_show \o SP \o W_me \o SP \o W_recent \o SP \o W_bills

SimAlphabet == {"a", "B", " "}
MaxTextLen == 4

RECURSIVE TextsUpTo(_)
TextsUpTo(n) ==
    IF n = 0 THEN {<<>>}
    ELSE LET shorter == TextsUpTo(n - 1)
         IN shorter \cup {Append(t, c) : t \in shorter, c \in SimAlphabet}

SimTexts == TextsUpTo(MaxTextLen) \cup {Q_balance, Q_whats_balance, Q_recent_bills}


----------------------------------------------------------------------------
(* The semantic cache's table and the v2 chat pipeline                     *)
(* (agents/chat_agent_v2.py).                                              *)

Users == {"u1", "u2"}

\* The classes models.py defines; cache_answer does `from models import ChatCache`.
ModelsExports == {"User", "Category", "Bill", "Transaction", "AgentResult", "ChatLog"}

CacheDays == 7     \* timedelta(days=7): the lookup cutoff and the expiry
CacheScanLimit == 50
ChatMinSimilarity == <<75, 100>>   \* min_similarity=0.75 at the call site

\* ORDER BY hit_count DESC: every order of `rows` with non-increasing
\* hit_count (SQL leaves the order of ties open).
ByHitCount(rows) ==
    LET n == Len(rows)
        perms == {p \in [1..n -> 1..n] : \A i, j \in 1..n : p[i] = p[j] => i = j}
        ordered == {[i \in 1..n |-> rows[p[i]]] : p \in perms}
    IN {s \in ordered : \A i, j \in 1..n : i < j => s[i].hit_count >= s[j].hit_count}

RECURSIVE SelectRows(_, _, _)
\* WHERE user_id = :uid AND cached_at > :cutoff
SelectRows(rows, uid, cutoff) ==
    IF rows = <<>> THEN <<>>
    ELSE LET r == Head(rows)
             rest == SelectRows(Tail(rows), uid, cutoff)
         IN IF r.user_id = uid /\ r.cached_at > cutoff THEN <<r>> \o rest ELSE rest

FirstN(s, n) == IF Len(s) <= n THEN s ELSE SubSeq(s, 1, n)

RECURSIVE BestMatchLast(_, _, _, _)
BestMatchLast(rows, question, min_similarity, best) ==
    IF rows = <<>> THEN best
    ELSE LET r == Head(rows)
             score == similarity_score(question, r.question_text)
         IN IF FracLeq(min_similarity, score)
            THEN BestMatchLast(Tail(rows), question, min_similarity,
                               <<r.answer_text, score>>)
            ELSE BestMatchLast(Tail(rows), question, min_similarity, best)

\* The loop of find_cached_answer: best is None or <<answer, score>>, and
\* best_score is 0 while best is None.
RECURSIVE BestMatch(_, _, _, _)
BestMatch(rows, question, min_similarity, best) ==
    IF rows = <<>> THEN best
    ELSE LET r == Head(rows)
             score == similarity_score(question, r.question_text)
             best_score == IF best = None THEN <<0, 1>> ELSE best[2]
         IN IF FracLess(best_score, score) /\ FracLeq(min_similarity, score)
            THEN BestMatch(Tail(rows), question, min_similarity,
                           <<r.answer_text, score>>)
            ELSE BestMatch(Tail(rows), question, min_similarity, best)

\* find_cached_answer: the results the lookup can return at time t, one per
\* order the SELECT may deliver; None when the query raises (no table).
find_cached_answer(cache, uid, question, min_similarity, t) ==
    IF cache = None THEN {None}
    ELSE LET cutoff == t - CacheDays * Day
             selected == SelectRows(cache, uid, cutoff)
         IN {BestMatch(FirstN(s, CacheScanLimit), question, min_similarity, None) :
                s \in ByHitCount(selected)}

\* cache_answer: the import of ChatCache raises when models.py does not
\* define it, and the except clause swallows that; otherwise a row is added.
cache_answer(cache, uid, question, answer, t) ==
    IF "ChatCache" \notin ModelsExports \/ cache = None
    THEN cache
    ELSE Append(cache, [user_id |-> uid, question_text |-> question,
                        answer_text |-> answer, similarity_score |-> <<1, 1>>,
                        cached_at |-> t, expires_at |-> t + CacheDays * Day,
                        hit_count |-> 0])

\* f"{similarity:.1%}": the score in tenths of a percent, rounded.
PerMille(score) == (2000 * score[1] + score[2]) \div (2 * score[2])

ChatLogRow(uid, role, content) == [user_id |-> uid, role |-> role, content |-> content]

\* STEP 5 of run_chat_agent_v2: the limiter's answer `res`, then the provider
\* call whose outcome is `llm` ("error" when it raises, else the reply text).
call_groq_unchecked(res, llm) ==
    [limiter |-> IF res[1] THEN "allowed" ELSE "denied",
     recorded |-> TRUE,
     llm_called |-> TRUE,
     success |-> llm # "error",
     reply |-> IF llm = "error" THEN <<"API Error">> ELSE llm]

\* The except clause of STEP 5 left out: the error text goes on to STEPS 6
\* to 8 as if it were the assistant's reply.
call_groq_error_as_reply(res, llm) ==
    IF ~res[1]
    THEN [limiter |-> "denied", recorded |-> FALSE, llm_called |-> FALSE,
          success |-> FALSE, reply |-> res[2]]
    ELSE [limiter |-> "allowed", recorded |-> TRUE, llm_called |-> TRUE,
          success |-> TRUE,
          reply |-> IF llm = "error" THEN <<"API Error">> ELSE llm]

call_groq(res, llm) ==
    IF ~res[1]
    THEN [limiter |-> "denied", recorded |-> FALSE, llm_called |-> FALSE,
          success |-> FALSE, reply |-> res[2]]
    ELSE [limiter |-> "allowed", recorded |-> TRUE, llm_called |-> TRUE,
          success |-> llm # "error",
          reply |-> IF llm = "error" THEN <<"API Error">> ELSE llm]

NoChat ==
    [called |-> FALSE, user |-> None, message |-> <<>>, at |-> 0,
     api_key |-> FALSE, would_deny |-> FALSE, looked_up |-> FALSE,
     limiter |-> "not consulted", llm_called |-> FALSE, log_failed |-> FALSE,
     logs_before |-> 0, success |-> FALSE, reply |-> None, cached |-> FALSE,
     similarity |-> None, cache_before |-> None, prev_fresh |-> None,
     failure |-> "none", calls |-> 0]

\* The fields of chat_out every return path fills in the same way.
ChatCall(uid, message) ==
    [NoChat EXCEPT !.called = TRUE, !.user = uid, !.message = message,
                   !.at = now, !.api_key = groq_api_key,
                   !.would_deny = ~check_limits(CleanedMinute(now), CleanedDay(now))[1],
                   !.logs_before = Len(chat_logs),
                   !.cache_before = chat_cache, !.prev_fresh = last_fresh,
                   !.calls = chat_out.calls + 1]

LlmAnswers == {"A1"}
MaxChatCalls == 2

\* run_chat_agent_v2(user_id, message). ctx_ok: prepare_chat_context_v2 does
\* not raise; llm: the provider's reply or "error"; log_ok: the ChatLog
\* commit succeeds (a failure is rolled back and swallowed). chat_out.failure
\* records which of the two try blocks caught an exception in this call.
RunChatAgentV2(uid, message, ctx_ok, llm, log_ok) ==
    /\ chat_out.calls < MaxChatCalls
    /\ LET call == ChatCall(uid, message)
       IN IF ~groq_api_key
          THEN \* the API key is checked before anything else
               /\ chat_out' = [call EXCEPT !.reply = <<"API key not configured">>]
               /\ UNCHANGED <<requests_per_minute, requests_per_day, chat_cache,
                              chat_logs, llm_calls, last_fresh>>
          ELSE \E hit \in find_cached_answer(chat_cache, uid, message,
                                             ChatMinSimilarity, now) :
               IF hit # None
               THEN \* STEP 1: cache hit, logged as an assistant message
                    /\ chat_logs' = IF log_ok
                                    THEN Append(chat_logs, ChatLogRow(uid, "assistant", hit[1]))
                                    ELSE chat_logs
                    /\ chat_out' = [call EXCEPT !.looked_up = TRUE, !.success = TRUE,
                                                !.log_failed = ~log_ok,
                                                !.reply = hit[1], !.cached = TRUE,
                                                !.similarity = PerMille(hit[2])]
                    /\ UNCHANGED <<requests_per_minute, requests_per_day, chat_cache,
                                   llm_calls, last_fresh>>
               ELSE IF ~ctx_ok
               THEN \* STEP 2: context gathering failed
                    /\ chat_out' = [call EXCEPT !.looked_up = TRUE,
                                                !.failure = "context",
                                                !.reply = <<"Error gathering financial data">>]
                    /\ UNCHANGED <<requests_per_minute, requests_per_day, chat_cache,
                                   chat_logs, llm_calls, last_fresh>>
               ELSE \* STEP 5: rate-limit check, record, provider call
                    LET rpm == CleanedMinute(now)
                        rpd == CleanedDay(now)
                        g == call_groq(check_limits(rpm, rpd), llm)
                    IN /\ requests_per_minute' = IF g.recorded THEN Append(rpm, now) ELSE rpm
                       /\ requests_per_day' = IF g.recorded THEN Append(rpd, now) ELSE rpd
                       /\ llm_calls' = IF g.llm_called THEN llm_calls + 1 ELSE llm_calls
                       /\ chat_out' = [call EXCEPT !.looked_up = TRUE, !.limiter = g.limiter,
                                                   !.llm_called = g.llm_called,
                                                   !.log_failed = g.success /\ ~log_ok,
                                                   !.failure = IF g.llm_called /\ llm = "error"
                                                               THEN "llm" ELSE "none",
                                                   !.success = g.success, !.reply = g.reply]
                       /\ IF g.success
                          THEN \* STEPS 6 and 7: store the exchange, cache the answer
                               /\ chat_logs' =
                                      IF log_ok
                                      THEN chat_logs \o <<ChatLogRow(uid, "user", message),
                                                          ChatLogRow(uid, "assistant", g.reply)>>
                                      ELSE chat_logs
                               /\ chat_cache' = cache_answer(chat_cache, uid, message, g.reply, now)
                               /\ last_fresh' = [user |-> uid, message |-> message,
                                                 reply |-> g.reply, at |-> now]
                          ELSE UNCHANGED <<chat_logs, chat_cache, last_fresh>>
    /\ UNCHANGED <<now, pc, chk, groq_api_key>>

----------------------------------------------------------------------------
(* The recurrence computation _compute_next_due_from                       *)
(* (agents/reminder_agent.py; app.py holds an identical copy).             *)
(* A datetime is [year, month, day, hour].                                 *)

DateTime(y, m, d, h) == [year |-> y, month |-> m, day |-> d, hour |-> h]

MAXYEAR == 9999          \* datetime.replace raises ValueError beyond it
ClampDay == 28           \* day = min(cur.day, 28)
max_iterations == 1200

\* Python's None where a datetime is expected, and the ValueError that
\* datetime.replace raises, as datetimes outside the calendar.
NoDate == [year |-> 0, month |-> 0, day |-> 0, hour |-> 0]
ValueError == [year |-> -1, month |-> 0, day |-> 0, hour |-> 0]

IsLeap(y) == (y % 4 = 0 /\ y % 100 # 0) \/ y % 400 = 0

DaysInMonth(y, m) ==
    CASE m \in {4, 6, 9, 11} -> 30
      [] m = 2 -> IF IsLeap(y) THEN 29 ELSE 28
      [] OTHER -> 31

ValidDate(y, m, d) ==
    /\ y \in 1..MAXYEAR
    /\ m \in 1..12
    /\ d \in 1..DaysInMonth(y, m)

\* a < b on datetimes
Before(a, b) ==
    \/ a.year < b.year
    \/ a.year = b.year /\ a.month < b.month
    \/ a.year = b.year /\ a.month = b.month /\ a.day < b.day
    \/ a.year = b.year /\ a.month = b.month /\ a.day = b.day /\ a.hour < b.hour

Min(a, b) == IF a < b THEN a ELSE b

\* cur.replace(year=y, month=m, day=d): the new datetime, or ValueError.
replace(cur, y, m, d) ==
    IF ValidDate(y, m, d)
    THEN [cur EXCEPT !.year = y, !.month = m, !.day = d]
    ELSE ValueError

monthly_step_unclamped(cur, interval_count) ==
    LET month0 == cur.month - 1 + interval_count
        year == cur.year + (month0 \div 12)
        month == (month0 % 12) + 1
        first == replace(cur, year, month, cur.day)
    IN IF first # ValueError THEN first
       ELSE LET c1 == replace(cur, cur.year, cur.month, 1)
            IN IF month = 12
               THEN replace(c1, year + 1, 1, c1.day)
               ELSE replace(c1, c1.year, month, c1.day)

\* One turn of the loop for period == 'monthly': the new cur, or ValueError
\* when the replace in the except clause raises as well.
monthly_step(cur, interval_count) ==
    LET month0 == cur.month - 1 + interval_count
        year == cur.year + (month0 \div 12)
        month == (month0 % 12) + 1
        day == Min(cur.day, ClampDay)
        first == replace(cur, year, month, day)
    IN IF first # ValueError THEN first
       ELSE LET c1 == replace(cur, cur.year, cur.month, 1)
            IN IF month = 12
               THEN replace(c1, year + 1, 1, c1.day)
               ELSE replace(c1, c1.year, month, c1.day)

\* One turn of the loop for period == 'yearly'.
yearly_step(cur, interval_count) ==
    LET first == replace(cur, cur.year + interval_count, cur.month, cur.day)
    IN IF first # ValueError THEN first
       ELSE replace(cur, cur.year + interval_count, cur.month, Min(cur.day, ClampDay))

\* The loop with "while cur < now" alone, without the iteration bound.
loop_turn_unbounded(s, period, interval_count, t) ==
    IF s.returned THEN s
    ELSE IF Before(s.cur, t)
    THEN IF period \notin {"monthly", "yearly"}
         THEN [s EXCEPT !.returned = TRUE, !.value = NoDate]
         ELSE LET next == IF period = "monthly"
                          THEN monthly_step(s.cur, interval_count)
                          ELSE yearly_step(s.cur, interval_count)
              IN IF next = ValueError
                 THEN [s EXCEPT !.returned = TRUE, !.value = ValueError]
                 ELSE [s EXCEPT !.cur = next, !.i = s.i + 1]
    ELSE [s EXCEPT !.returned = TRUE,
                   !.value = IF ~Before(s.cur, t) THEN s.cur ELSE NoDate]

\* One evaluation of "while cur < now and i < max_iterations" with the loop
\* body that follows it; when the condition fails, the final
\* "return cur if cur >= now else None". s = [cur, i, returned, value].
loop_turn(s, period, interval_count, t) ==
    IF s.returned THEN s
    ELSE IF Before(s.cur, t) /\ s.i < max_iterations
    THEN IF period \notin {"monthly", "yearly"}
         THEN [s EXCEPT !.returned = TRUE, !.value = NoDate]
         ELSE LET next == IF period = "monthly"
                          THEN monthly_step(s.cur, interval_count)
                          ELSE yearly_step(s.cur, interval_count)
              IN IF next = ValueError
                 THEN [s EXCEPT !.returned = TRUE, !.value = ValueError]
                 ELSE [s EXCEPT !.cur = next, !.i = s.i + 1]
    ELSE [s EXCEPT !.returned = TRUE,
                   !.value = IF ~Before(s.cur, t) THEN s.cur ELSE NoDate]

\* n successive evaluations of the loop, split in halves to keep the
\* evaluation shallow.
RECURSIVE loop_turns(_, _, _, _, _)
loop_turns(s, n, period, interval_count, t) ==
    IF s.returned \/ n = 0 THEN s
    ELSE IF n = 1 THEN loop_turn(s, period, interval_count, t)
    ELSE LET mid == loop_turns(s, n \div 2, period, interval_count, t)
         IN loop_turns(mid, n - (n \div 2), period, interval_count, t)

\* The loop from cur = start_date, i = 0 to its return: at most
\* max_iterations turns of the body and the evaluation that leaves the loop.
advance(start_date, period, interval_count, t) ==
    loop_turns([cur |-> start_date, i |-> 0, returned |-> FALSE, value |-> NoDate],
               max_iterations + 1, period, interval_count, t)

\* _compute_next_due_from(start_date, period, interval_count) at time t: a
\* datetime, NoDate, or ValueError when the exception leaves the function.
compute_next_due_from(start_date, period, interval_count, t) ==
    IF start_date = NoDate THEN NoDate
    ELSE IF period = "one-time" \/ period = None \/ period = ""
    THEN IF ~Before(start_date, t) THEN start_date ELSE NoDate
    ELSE advance(start_date, period, interval_count, t).value

\* The run of the function as a whole: whether it has left the function
\* (by return or by exception) within max_iterations + 1 evaluations of the
\* loop condition, and the value of i when it did.
compute_next_due_run(start_date, period, interval_count, t) ==
    IF start_date = NoDate \/ period = "one-time" \/ period = None \/ period = ""
    THEN [returned |-> TRUE, i |-> 0]
    ELSE LET s == advance(start_date, period, interval_count, t)
         IN [returned |-> s.returned, i |-> s.i]

IsDate(v) == v \notin {NoDate, ValueError}

NotComputed ==
    [done |-> FALSE, value |-> NoDate, at |-> NoDate, returned |-> FALSE, i |-> 0]

\* next_due = _compute_next_due_from(start, period, interval_count), now.
ComputeNextDue ==
    /\ ~due_out.done
    /\ LET run == compute_next_due_run(due_in.start, due_in.period,
                                       due_in.interval_count, today)
       IN due_out' = [done |-> TRUE, at |-> today, returned |-> run.returned, i |-> run.i,
                      value |-> compute_next_due_from(due_in.start, due_in.period,
                                                      due_in.interval_count, today)]
    /\ UNCHANGED <<today, due_in, due_again>>

\* The computation applied to its own result, at the current time.
RecomputeFromNextDue ==
    /\ due_out.done /\ IsDate(due_out.value)
    /\ ~due_again.done
    /\ LET run == compute_next_due_run(due_out.value, due_in.period,
                                       due_in.interval_count, today)
       IN due_again' = [done |-> TRUE, at |-> today, returned |-> run.returned, i |-> run.i,
                        value |-> compute_next_due_from(due_out.value, due_in.period,
                                                        due_in.interval_count, today)]
    /\ UNCHANGED <<today, due_in, due_out>>

DueStarts ==
    {DateTime(y, m, d, h) : y \in {2023, 2024}, m \in {1, 2, 12},
                            d \in {15, 28, 29, 31}, h \in {0, 12}}
        \cap {dt \in [year : {2023, 2024}, month : 1..12, day : 1..31, hour : {0, 12}] :
                 ValidDate(dt.year, dt.month, dt.day)}

DueNows ==
    {DateTime(2024, 1, 15, 12), DateTime(2024, 2, 28, 0), DateTime(2024, 2, 29, 0),
     DateTime(2024, 3, 1, 0), DateTime(2024, 12, 31, 12), DateTime(2025, 2, 28, 12)}

DuePeriods == {"monthly", "yearly", "one-time", None, "weekly"}

MaxInterval == 2
DueIntervals == 0..MaxInterval \cup {13}

\* Time moves on to a later observation.
TimePasses ==
    /\ due_out.done
    /\ \E t \in DueNows : Before(today, t) /\ today' = t

----------------------------------------------------------------------------
(* The investment agent's clarification gate (agents/investment_agent.py). *)
(* A profile value is None (key absent or None), "" (present but empty:    *)
(* '' or 0) or "given".                                                    *)

ProfileKeys == {"risk_tolerance", "time_horizon", "investment_amount", "investment_goals"}

ProfileValues == {None, "", "given"}

\* Python truthiness of a profile value.
Truthy(v) == v \notin {None, ""}

Q_risk_tolerance == "What is your risk tolerance? (low / medium / high)"
Q_time_horizon == "What is your investment time horizon?"
Q_investment_amount == "How much amount can you invest monthly or as a lump sum?"
Q_investment_goals == "Please describe your investment goals (e.g., target amount and timeframe)"

ClarificationHeader == "To provide accurate advice, I need a bit more information:"

get_clarification_questions_without_risk(user_profile) ==
    (IF ~Truthy(user_profile["time_horizon"]) THEN <<Q_time_horizon>> ELSE <<>>)
    \o (IF ~Truthy(user_profile["investment_amount"]) THEN <<Q_investment_amount>> ELSE <<>>)
    \o (IF ~Truthy(user_profile["investment_goals"]) THEN <<Q_investment_goals>> ELSE <<>>)

get_clarification_questions(user_profile) ==
    (IF ~Truthy(user_profile["risk_tolerance"]) THEN <<Q_risk_tolerance>> ELSE <<>>)
    \o (IF ~Truthy(user_profile["time_horizon"]) THEN <<Q_time_horizon>> ELSE <<>>)
    \o (IF ~Truthy(user_profile["investment_amount"]) THEN <<Q_investment_amount>> ELSE <<>>)
    \o (IF ~Truthy(user_profile["investment_goals"]) THEN <<Q_investment_goals>> ELSE <<>>)

\* investment_advice(portfolio, user_profile). profile_type is the Python type
\* of the user_profile argument; holdings is the number of valid tickers of the
\* portfolio, each of which summarize_portfolio fetches from the market-data
\* service; llm is call_gemini's text, or "RuntimeError" when it raises.
\* The result is the returned text as a sequence of lines, or the exception.
investment_advice(holdings, profile_type, user_profile, llm) ==
    IF profile_type # "dict"
    THEN [raised |-> "AttributeError", lines |-> <<>>,
          summarize_calls |-> 0, market_calls |-> 0, llm_calls |-> 0]
    ELSE LET clarification_questions == get_clarification_questions(user_profile)
         IN IF clarification_questions # <<>>
            THEN [raised |-> None,
                  lines |-> <<<<ClarificationHeader>>>>
                            \o [i \in 1..Len(clarification_questions) |->
                                    <<"- ", clarification_questions[i]>>],
                  summarize_calls |-> 0, market_calls |-> 0, llm_calls |-> 0]
            ELSE [raised |-> IF llm = "RuntimeError" THEN "RuntimeError" ELSE None,
                  lines |-> IF llm = "RuntimeError" THEN <<>> ELSE <<<<llm>>>>,
                  summarize_calls |-> 1, market_calls |-> holdings, llm_calls |-> 1]

NoAdvice ==
    [called |-> FALSE, raised |-> None, lines |-> <<>>,
     summarize_calls |-> 0, market_calls |-> 0, llm_calls |-> 0]

LlmTexts == {"Final Answer: advice", "RuntimeError"}

\* One call of investment_advice with the arguments in invest_in.
InvestmentAdvice ==
    /\ ~invest_out.called
    /\ \E llm \in LlmTexts :
          LET r == investment_advice(invest_in.holdings, invest_in.profile_type,
                                     invest_in.user_profile, llm)
          IN invest_out' = [called |-> TRUE, raised |-> r.raised, lines |-> r.lines,
                            summarize_calls |-> r.summarize_calls,
                            market_calls |-> r.market_calls,
                            llm_calls |-> r.llm_calls]
    /\ UNCHANGED invest_in

MaxHoldings == 2

EmptyProfile == [k \in ProfileKeys |-> None]

\* A dict profile, or what api_invest_advice passes: the goal string or None.
InvestInputs ==
    [holdings : 0..MaxHoldings, profile_type : {"dict"},
     user_profile : [ProfileKeys -> ProfileValues]]
    \cup [holdings : 0..MaxHoldings, profile_type : {"str", "NoneType"},
          user_profile : {EmptyProfile}]

----------------------------------------------------------------------------
(* The JSON API of app.py: the session, get_current_user and one action    *)
(* per /api/ route. A handler's effects are counted: database commits,     *)
(* agent runs, LLM requests and outbound web requests.                     *)

DbOutcomes == {"ok", "OperationalError", "Exception"}

\* User.query.get(user_id)
UserGet(user_id, table) == IF user_id \in table THEN user_id ELSE None

get_current_user_unchecked(user_id, table, db1, db2) ==
    user_id

\* get_current_user(): the logged-in user, or None. db1 and db2 are the
\* outcomes of the first query and of the retry after a rollback.
get_current_user(user_id, table, db1, db2) ==
    IF user_id = None THEN None
    ELSE IF db1 = "ok" THEN UserGet(user_id, table)
    ELSE IF db1 = "OperationalError"
    THEN IF db2 = "ok" THEN UserGet(user_id, table) ELSE None
    ELSE None

MaxApiRequests == 2
ChatAttempts == 3          \* attempts = 3 in run_chat_agent

NoResponse ==
    [route |-> None, status |-> 0, error |-> None, session_user_id |-> None,
     resolves |-> FALSE, db_writes |-> 0, agent_runs |-> 0, llm_calls |-> 0,
     web_calls |-> 0]

\* The handler returns: its response and the effects it had.
Respond(route, status, error, dw, ar, lc, wc) ==
    /\ api_requests < MaxApiRequests
    /\ api_requests' = api_requests + 1
    /\ resp' = [route |-> route, status |-> status, error |-> error,
                session_user_id |-> session_user_id,
                resolves |-> (session_user_id # None /\ session_user_id \in users),
                db_writes |-> dw, agent_runs |-> ar, llm_calls |-> lc,
                web_calls |-> wc]
    /\ db_writes' = db_writes + dw
    /\ agent_runs' = agent_runs + ar
    /\ api_llm_calls' = api_llm_calls + lc
    /\ web_calls' = web_calls + wc
    /\ UNCHANGED <<session_user_id, users>>

\* return jsonify({'error': 'authentication required'}), 401
Unauthorized(route) ==
    Respond(route, 401, "authentication required", 0, 0, 0, 0)

Bit(b) == IF b THEN 1 ELSE 0

CurrentUser(db1, db2) == get_current_user(session_user_id, users, db1, db2)

api_dashboard_trigger_refresh(db1, db2) ==
    IF CurrentUser(db1, db2) = None
    THEN Unauthorized("/api/dashboard/trigger-refresh")
    ELSE Respond("/api/dashboard/trigger-refresh", 202, None, 0, 0, 0, 0)

\* The user message is logged, run_chat_agent is called and its reply is
\* logged; a failed commit is rolled back.
api_chat(db1, db2, message, log1_ok, llm_attempts, log2_ok) ==
    IF CurrentUser(db1, db2) = None THEN Unauthorized("/api/chat")
    ELSE IF ~message THEN Respond("/api/chat", 400, "no message provided", 0, 0, 0, 0)
    ELSE Respond("/api/chat", 200, None, Bit(log1_ok) + Bit(log2_ok), 1, llm_attempts, 0)

api_web_fetch(db1, db2, url) ==
    IF CurrentUser(db1, db2) = None THEN Unauthorized("/api/web/fetch")
    ELSE IF ~url THEN Respond("/api/web/fetch", 400, "no url provided", 0, 0, 0, 0)
    ELSE Respond("/api/web/fetch", 200, None, 0, 0, 0, 1)

api_web_post(db1, db2, url) ==
    IF CurrentUser(db1, db2) = None THEN Unauthorized("/api/web/post")
    ELSE IF ~url THEN Respond("/api/web/post", 400, "no url provided", 0, 0, 0, 0)
    ELSE Respond("/api/web/post", 200, None, 0, 0, 0, 1)

\* With use_agent the tool agent runs and, when it fails, investment_advice
\* is the fallback; without it investment_advice is called directly. Both
\* calls pass the goal text as user_profile.
api_invest_advice(db1, db2, use_agent, agent_ok, llm, holdings) ==
    IF CurrentUser(db1, db2) = None THEN Unauthorized("/api/invest/advice")
    ELSE LET r == investment_advice(holdings, "str", EmptyProfile, llm)
             failed == r.raised # None
         IN IF use_agent /\ agent_ok
            THEN Respond("/api/invest/advice", 200, None, 0, 1, 1, 0)
            ELSE Respond("/api/invest/advice",
                         IF failed THEN 500 ELSE 200,
                         IF failed THEN r.raised ELSE None,
                         0, Bit(use_agent), r.llm_calls + Bit(use_agent), r.market_calls)

\* A handler that only reads the database: 200, or 500 on a database error
\* where the handler catches it.
ReadOnlyRoute(route, db1, db2, query_ok) ==
    IF CurrentUser(db1, db2) = None THEN Unauthorized(route)
    ELSE IF query_ok THEN Respond(route, 200, None, 0, 0, 0, 0)
    ELSE Respond(route, 500, "database error", 0, 0, 0, 0)

\* A handler that runs an agent: the agent may call the LLM and store an
\* AgentResult row, or raise.
AgentRunRoute(route, db1, db2, llm_called, stored, raised) ==
    IF CurrentUser(db1, db2) = None THEN Unauthorized(route)
    ELSE Respond(route, IF raised THEN 500 ELSE 200,
                 IF raised THEN "agent run failed" ELSE None,
                 Bit(stored), 1, Bit(llm_called), 0)

api_transactions_recent(db1, db2, query_ok) ==
    ReadOnlyRoute("/api/transactions/recent", db1, db2, query_ok)

api_agents_insights_run(db1, db2, llm_called, stored, raised) ==
    AgentRunRoute("/api/agents/insights/run", db1, db2, llm_called, stored, raised)

api_agents_reminders_run(db1, db2, llm_called, stored, raised) ==
    AgentRunRoute("/api/agents/reminders/run", db1, db2, llm_called, stored, raised)

api_agents_reminders_get(db1, db2, query_ok) ==
    ReadOnlyRoute("/api/agents/reminders", db1, db2, query_ok)

api_agents_insights_get(db1, db2, query_ok) ==
    ReadOnlyRoute("/api/agents/insights", db1, db2, query_ok)

api_agents_forecast_run(db1, db2, llm_called, stored, raised) ==
    AgentRunRoute("/api/agents/forecast/run", db1, db2, llm_called, stored, raised)

api_agents_forecast_get(db1, db2, query_ok) ==
    ReadOnlyRoute("/api/agents/forecast", db1, db2, query_ok)

api_dashboard_summary(db1, db2, query_ok) ==
    ReadOnlyRoute("/api/dashboard/summary", db1, db2, query_ok)

api_notifications_json(db1, db2, query_ok) ==
    ReadOnlyRoute("/api/notifications/json", db1, db2, query_ok)

api_transactions(db1, db2, query_ok) ==
    ReadOnlyRoute("/api/transactions", db1, db2, query_ok)

api_dashboard_data(db1, db2) ==
    IF CurrentUser(db1, db2) = None THEN Unauthorized("/api/dashboard/data")
    ELSE Respond("/api/dashboard/data", 200, None, 0, 0, 0, 0)

\* POST /login: the session is set when the account exists and the password
\* matches.
login(u, password_ok) ==
    /\ u \in users /\ password_ok
    /\ session_user_id # u
    /\ session_user_id' = u
    /\ UNCHANGED <<users, db_writes, agent_runs, api_llm_calls, web_calls,
                   api_requests, resp>>

\* GET /logout: session.pop('user_id', None)
logout ==
    /\ session_user_id # None
    /\ session_user_id' = None
    /\ UNCHANGED <<users, db_writes, agent_runs, api_llm_calls, web_calls,
                   api_requests, resp>>

UserIds == {"u1", "u2"}

----------------------------------------------------------------------------
(* Amounts typed into forms (app.py). A text is a sequence of characters;  *)
(* int(float(text) * 100) turns rupees into paise.                         *)

Digits == {"0", "1", "2", "3", "4", "5", "6", "7", "8", "9"}

IsDigit(c) == c \in Digits

DigitVal(c) ==
    CASE c = "0" -> 0 [] c = "1" -> 1 [] c = "2" -> 2 [] c = "3" -> 3
      [] c = "4" -> 4 [] c = "5" -> 5 [] c = "6" -> 6 [] c = "7" -> 7
      [] c = "8" -> 8 [] c = "9" -> 9

AllDigits(ds) == \A i \in DOMAIN ds : IsDigit(ds[i])

RECURSIVE ParseNat(_)
ParseNat(ds) ==
    IF ds = <<>> THEN 0
    ELSE 10 * ParseNat(SubSeq(ds, 1, Len(ds) - 1)) + DigitVal(ds[Len(ds)])

RECURSIVE Pow10(_)
Pow10(k) == IF k = 0 THEN 1 ELSE 10 * Pow10(k - 1)

\* The position of the first "." of the text, or Len(text) + 1.
DotAt(text) ==
    IF \E i \in DOMAIN text : text[i] = "."
    THEN CHOOSE i \in DOMAIN text :
             text[i] = "." /\ \A j \in 1..(i - 1) : text[j] # "."
    ELSE Len(text) + 1

\* float(text) succeeds: digits with an optional decimal point, for texts of
\* digits, "." and letters (no sign, blank or exponent).
IsFloatText(text) ==
    LET whole == SubSeq(text, 1, DotAt(text) - 1)
        fraction == SubSeq(text, DotAt(text) + 1, Len(text))
    IN /\ AllDigits(whole) /\ AllDigits(fraction)
       /\ Len(whole) + Len(fraction) > 0

\* Decimal texts whose double-precision product with 100 falls just below
\* the exact value, so that int() truncates to one paisa less: 2.05 * 100 is
\* 204.99999999999997.
InexactProducts ==
    {<<"2", ".", "0", "5">>, <<"2", ".", "5", "5">>, <<"5", ".", "0", "2">>,
     <<"0", ".", "2", "9">>}

\* int(float(text) * 100) for a text float() accepts.
float_times_100(text) ==
    LET whole == SubSeq(text, 1, DotAt(text) - 1)
        fraction == SubSeq(text, DotAt(text) + 1, Len(text))
        scale == Pow10(Len(fraction))
        exact == ((ParseNat(whole) * scale + ParseNat(fraction)) * 100) \div scale
    IN exact - (IF text \in InexactProducts THEN 1 ELSE 0)

\* The amount field of a form, absent when the form has none.
NoText == <<"absent">>

\* The except clause that always falls back to 0.
parse_amount_or_zero(amount, fallback) ==
    IF amount # NoText /\ IsFloatText(amount) THEN float_times_100(amount)
    ELSE 0

\* try: amount_cents = int(float(amount) * 100) / except: fallback
parse_amount(amount, fallback) ==
    IF amount # NoText /\ IsFloatText(amount) THEN float_times_100(amount)
    ELSE fallback

\* re.search(r"(\d+(?:\.\d{1,2})?)", text): the first match, or NoText.
first_amount(text) ==
    IF ~\E i \in DOMAIN text : IsDigit(text[i]) THEN NoText
    ELSE LET start == CHOOSE i \in DOMAIN text :
                          IsDigit(text[i]) /\ \A j \in 1..(i - 1) : ~IsDigit(text[j])
             stop == CHOOSE j \in start..Len(text) :
                          /\ \A k \in start..j : IsDigit(text[k])
                          /\ (j = Len(text) \/ ~IsDigit(text[j + 1]))
             decimals == IF stop + 2 <= Len(text) /\ text[stop + 1] = "."
                            /\ IsDigit(text[stop + 2])
                         THEN IF stop + 3 <= Len(text) /\ IsDigit(text[stop + 3])
                              THEN 3 ELSE 2
                         ELSE 0
         IN SubSeq(text, start, stop + decimals)

----------------------------------------------------------------------------
(* The server-rendered pages and form routes of app.py, over the           *)
(* transactions, bills and categories tables. Rows carry the columns the   *)
(* handlers compute; occurred_at, currency, meta and the free-text columns *)
(* of a bill are stored as given and are left out.                         *)

NoCategory == "no category"

TransactionColumns ==
    {"id", "user_id", "bill_id", "category_id", "txn_type", "amount_cents",
     "currency", "occurred_at", "description", "meta", "created_at"}

BillColumns ==
    {"id", "user_id", "name", "description", "amount_cents", "currency",
     "reminder_text", "schedule_type", "interval_count", "interval_unit", "active",
     "last_paid", "next_due", "due_date", "created_at"}

\* The keyword arguments of Bill(...) in create_bill.
CreateBillKeywords ==
    {"user_id", "name", "description", "tag", "payment_mode", "amount_cents",
     "period", "last_paid", "next_due", "due_date"}

\* The keyword arguments of Transaction(...) in create_transaction and
\* transaction_quick.
CreateTransactionKeywords ==
    {"user_id", "txn_type", "amount_cents", "occurred_at", "description",
     "currency", "category_id", "meta"}

\* The declarative constructor raises TypeError for a keyword that is not an
\* attribute of the model class.
ConstructorAccepts(keywords, columns) == keywords \subseteq columns

TransactionRow(id, user_id, txn_type, amount_cents, description, category_id) ==
    [id |-> id, user_id |-> user_id, txn_type |-> txn_type,
     amount_cents |-> amount_cents, description |-> description,
     category_id |-> category_id]

BillRow(id, user_id, amount_cents, schedule_type, last_paid, next_due, due_date) ==
    [id |-> id, user_id |-> user_id, amount_cents |-> amount_cents,
     schedule_type |-> schedule_type, interval_count |-> 1,
     last_paid |-> last_paid, next_due |-> next_due, due_date |-> due_date]

CategoryRow(id, user_id, name) == [id |-> id, user_id |-> user_id, name |-> name]

TransactionIds == {"t1", "t2", "t3"}
BillIds == {"b1", "b2"}
CategoryIds == {"c1", "c2"}

\* Model.query.filter_by(id=id, user_id=user_id).first()
RowsOfAnyUser(table, id, user_id) == {r \in table : r.id = id}

RowsOfUser(table, id, user_id) == {r \in table : r.id = id /\ r.user_id = user_id}

\* default=generate_uuid: an id no row of the table has.
FreshIds(table, pool) == pool \ {r.id : r \in table}

\* get_or_create_category(user, name): the category id (NoCategory for None)
\* and the table afterwards. The user's own category wins over a global one;
\* a failed insert is rolled back.
get_or_create_category(user, name, table, id, insert_ok) ==
    LET own == {c \in table : c.user_id = user /\ c.name = name}
        global == {c \in table : c.user_id = None /\ c.name = name}
    IN IF name = <<>> THEN [category_id |-> NoCategory, table |-> table]
       ELSE IF own # {}
       THEN [category_id |-> (CHOOSE c \in own : TRUE).id, table |-> table]
       ELSE IF global # {}
       THEN [category_id |-> (CHOOSE c \in global : TRUE).id, table |-> table]
       ELSE IF insert_ok /\ id # NoCategory
       THEN [category_id |-> id, table |-> table \cup {CategoryRow(id, user, name)}]
       ELSE [category_id |-> NoCategory, table |-> table]

\* str.strip() on the texts the model draws from.
RECURSIVE strip(_)
strip(text) ==
    IF text = <<>> THEN text
    ELSE IF IsSpace(Head(text)) THEN strip(Tail(text))
    ELSE IF IsSpace(text[Len(text)]) THEN strip(SubSeq(text, 1, Len(text) - 1))
    ELSE text

Redirect(target) == [kind |-> "redirect", target |-> target]
Render(template) == [kind |-> "render", target |-> template]
Raised(exception) == [kind |-> "raise", target |-> exception]

NoPage ==
    [route |-> None, id |-> None, session_user_id |-> None, resolves |-> FALSE,
     outcome |-> Redirect(None), flash |-> None, result |-> None,
     owned |-> FALSE, changed |-> FALSE, foreign_changed |-> FALSE,
     new_rows |-> {}, form_amount |-> NoText, served |-> 0]

OthersRows(table, user_id) == {r \in table : r.user_id # user_id}

\* The handler returns. The tables of the next state are compared with the
\* current ones to record what the request changed.
Served(route, id, outcome, flash, result) ==
           [route |-> route, id |-> id, session_user_id |-> session_user_id,
             resolves |-> (session_user_id # None /\ session_user_id \in users),
             outcome |-> outcome, flash |-> flash, result |-> result,
             owned |-> \/ RowsOfUser(transactions, id, session_user_id) # {}
                       \/ RowsOfUser(bills, id, session_user_id) # {},
             changed |-> (<<transactions', bills', categories'>>
                              # <<transactions, bills, categories>>),
             foreign_changed |->
                 \/ OthersRows(transactions', session_user_id)
                        # OthersRows(transactions, session_user_id)
                 \/ OthersRows(bills', session_user_id)
                        # OthersRows(bills, session_user_id),
             new_rows |-> transactions' \ transactions,
             form_amount |-> NoText,
             served |-> page.served + 1]

Serve(route, id, outcome, flash, result) ==
    page' = Served(route, id, outcome, flash, result)

\* The return of an edit handler that read request.form.get('amount').
ServeEdit(route, id, outcome, flash, amount) ==
    page' = [Served(route, id, outcome, flash, None) EXCEPT !.form_amount = amount]

PageUser == get_current_user(session_user_id, users, "ok", "ok")

tables == <<transactions, bills, categories>>

\* if not user: return redirect(url_for('index'))
ToLanding(route, id) ==
    /\ UNCHANGED tables
    /\ Serve(route, id, Redirect("index"), None, None)

\* A page that is rendered for the logged-in user.
GatedPage(route, template) ==
    IF PageUser = None THEN ToLanding(route, None)
    ELSE /\ UNCHANGED tables
         /\ Serve(route, None, Render(template), None, None)

dashboard == GatedPage("/dashboard", "dashboard.html")

\* The chat page is rendered without looking at the session.
chat ==
    /\ UNCHANGED tables
    /\ Serve("/chat", None, Render("chat.html"), None, None)

invest_page == GatedPage("/invest", "invest.html")

\* Stale next_due values are recomputed on the loaded rows for display only;
\* nothing is committed.
bills_page == GatedPage("/bills", "transaction.html")

add_data == GatedPage("/add", "add_data.html")

transactions_page == GatedPage("/transactions", "transaction.html")

notifications_page == GatedPage("/notifications", "notifications.html")

agents_center == GatedPage("/agents", "agents.html")

\* A moment after t: the second of two successive datetime.utcnow() reads.
MomentAfter(t) == [t EXCEPT !.hour = t.hour + 1]

\* mark_bill_paid(user_id, bill_id): the result dict and the bills table
\* afterwards. paid_at is read from the clock before the bill is loaded, the
\* recurrence reads the clock again.
mark_bill_paid(user_id, bill_id, table, commit_ok) ==
    LET found == RowsOfUser(table, bill_id, user_id)
    IN IF found = {}
       THEN [ok |-> FALSE, error |-> "bill not found", table |-> table]
       ELSE LET b == CHOOSE r \in found : TRUE
                paid_at == today
                nd == compute_next_due_from(paid_at, b.schedule_type, b.interval_count,
                                            MomentAfter(today))
            IN IF nd = ValueError \/ ~commit_ok
               THEN [ok |-> FALSE, error |-> "exception", table |-> table]
               ELSE [ok |-> TRUE, error |-> None,
                     table |-> (table \ {b})
                                \cup {[b EXCEPT !.last_paid = paid_at, !.next_due = nd]}]

\* The route takes <int:bill_id>: only texts of digits reach the handler.
notifications_mark_done(bill_id, commit_ok) ==
    IF PageUser = None THEN ToLanding("/notifications/<int:bill_id>/mark_done", bill_id)
    ELSE LET res == mark_bill_paid(PageUser, bill_id, bills, commit_ok)
         IN /\ bills' = res.table
            /\ UNCHANGED <<transactions, categories>>
            /\ Serve("/notifications/<int:bill_id>/mark_done", bill_id,
                     Redirect("notifications_page"),
                     IF res.ok THEN "Marked bill as paid." ELSE "Failed to mark bill",
                     IF res.ok THEN "ok" ELSE res.error)

\* Placeholders: the flash is shown and the session is not looked at.
notifications_mark_read(note_id) ==
    /\ UNCHANGED tables
    /\ Serve("/notifications/<int:note_id>/mark_read", note_id,
             Redirect("notifications_page"), "Marked as read.", None)

notifications_dismiss(note_id) ==
    /\ UNCHANGED tables
    /\ Serve("/notifications/<int:note_id>/dismiss", note_id,
             Redirect("notifications_page"), "Dismissed.", None)

edit_transaction(txn_id, amount, description, category_name, txn_type, cat_id, insert_ok) ==
    IF PageUser = None THEN ToLanding("/transactions/<txn_id>/edit", txn_id)
    ELSE LET found == RowsOfUser(transactions, txn_id, PageUser)
         IN IF found = {}
            THEN /\ UNCHANGED tables
                 /\ Serve("/transactions/<txn_id>/edit", txn_id,
                          Redirect("transactions_page"), "Transaction not found.", None)
            ELSE LET txn == CHOOSE r \in found : TRUE
                     amount_cents == parse_amount(amount, txn.amount_cents)
                     cat == get_or_create_category(PageUser, strip(category_name),
                                                   categories, cat_id, insert_ok)
                     edited ==
                         [txn EXCEPT
                            !.amount_cents = amount_cents,
                            !.description = IF description # NoText
                                            THEN description ELSE txn.description,
                            !.category_id = IF category_name # <<>>
                                            THEN cat.category_id ELSE txn.category_id,
                            !.txn_type = IF txn_type # "" THEN txn_type ELSE txn.txn_type]
                 IN /\ transactions' = (transactions \ {txn}) \cup {edited}
                    /\ categories' = IF category_name # <<>> THEN cat.table ELSE categories
                    /\ UNCHANGED bills
                    /\ ServeEdit("/transactions/<txn_id>/edit", txn_id,
                                 Redirect("transactions_page"), "Transaction updated.",
                                 amount)

delete_transaction(txn_id) ==
    IF PageUser = None THEN ToLanding("/transactions/<txn_id>/delete", txn_id)
    ELSE LET found == RowsOfUser(transactions, txn_id, PageUser)
         IN IF found = {}
            THEN /\ UNCHANGED tables
                 /\ Serve("/transactions/<txn_id>/delete", txn_id,
                          Redirect("transactions_page"), "Transaction not found.", None)
            ELSE /\ transactions' = transactions \ found
                 /\ UNCHANGED <<bills, categories>>
                 /\ Serve("/transactions/<txn_id>/delete", txn_id,
                          Redirect("transactions_page"), "Transaction deleted.", None)

create_transaction(id, txn_type, amount, description, category_name, cat_id, insert_ok, commit_ok) ==
    IF PageUser = None THEN ToLanding("/transactions/create", None)
    ELSE LET amount_cents == parse_amount(amount, 0)
             cat == get_or_create_category(PageUser, strip(category_name),
                                           categories, cat_id, insert_ok)
             txn == TransactionRow(id, PageUser,
                                   IF txn_type # "" THEN txn_type ELSE "expense",
                                   amount_cents, description,
                                   IF category_name # <<>> THEN cat.category_id
                                   ELSE NoCategory)
         IN /\ categories' = IF category_name # <<>> THEN cat.table ELSE categories
            /\ transactions' = IF commit_ok THEN transactions \cup {txn} ELSE transactions
            /\ UNCHANGED bills
            /\ Serve("/transactions/create", None, Redirect("add_data"),
                     IF commit_ok THEN "Transaction added." ELSE "Error adding transaction",
                     None)

\* The first category, in table order, whose lower-cased name occurs in the
\* lower-cased text.
RECURSIVE Occurs(_, _)
Occurs(word, text) ==
    IF Len(word) > Len(text) THEN FALSE
    ELSE SubSeq(text, 1, Len(word)) = word \/ Occurs(word, Tail(text))

\* One transaction is added for the text: its amount is the first number in
\* the text, 0 when there is none; the text is the description.
transaction_quick(id, form_text, commit_ok) ==
    IF PageUser = None THEN ToLanding("/transactions/quick", None)
    ELSE LET text == strip(form_text)
         IN IF text = <<>>
            THEN /\ UNCHANGED tables
                 /\ Serve("/transactions/quick", None, Redirect("add_data"),
                          "Enter quick text.", None)
            ELSE LET m == first_amount(text)
                     amount_cents == IF m # NoText THEN parse_amount(m, 0) ELSE 0
                     candidates == {c \in categories :
                                       /\ c.user_id \in {PageUser, None}
                                       /\ c.name # <<>>
                                       /\ Occurs(lower(c.name), lower(text))}
                 IN \E category_id \in IF candidates = {} THEN {NoCategory}
                                       ELSE {c.id : c \in candidates} :
                       /\ transactions' =
                              IF commit_ok
                              THEN transactions \cup
                                       {TransactionRow(id, PageUser, "expense",
                                                       amount_cents, text, category_id)}
                              ELSE transactions
                       /\ UNCHANGED <<bills, categories>>
                       /\ Serve("/transactions/quick", None, Redirect("add_data"),
                                IF commit_ok THEN "Quick transaction added."
                                ELSE "Error adding quick transaction", None)

\* Bill(...) is given keywords that are not columns of the model, so the
\* constructor raises before anything is added to the session.
create_bill(id, amount, period, first_payment_date) ==
    IF PageUser = None THEN ToLanding("/bills/create", None)
    ELSE LET amount_cents == parse_amount(amount, 0)
             last_paid == first_payment_date
             computed == IF first_payment_date # NoDate
                         THEN compute_next_due_from(last_paid, period, 1, today)
                         ELSE NoDate
             next_due == IF computed = ValueError THEN NoDate ELSE computed
         IN IF ~ConstructorAccepts(CreateBillKeywords, BillColumns)
            THEN /\ UNCHANGED tables
                 /\ Serve("/bills/create", None, Raised("TypeError"), None, None)
            ELSE /\ bills' = bills \cup
                        {BillRow(id, PageUser, amount_cents, None,
                                 IF computed = ValueError THEN NoDate ELSE last_paid,
                                 next_due, next_due)}
                 /\ UNCHANGED <<transactions, categories>>
                 /\ Serve("/bills/create", None, Redirect("bills"), "Bill created.", None)

\* bill.tag, bill.payment_mode and bill.period are not columns: assigning them
\* stores nothing. The period of the form only enters the recurrence.
edit_bill(bill_id, amount, period, first_payment_date) ==
    IF PageUser = None THEN ToLanding("/bills/<bill_id>/edit", bill_id)
    ELSE LET found == RowsOfUser(bills, bill_id, PageUser)
         IN IF found = {}
            THEN /\ UNCHANGED tables
                 /\ Serve("/bills/<bill_id>/edit", bill_id, Redirect("bills"),
                          "Bill not found.", None)
            ELSE LET bill == CHOOSE r \in found : TRUE
                     amount_cents == parse_amount(amount, 0)
                     computed == IF first_payment_date # NoDate
                                 THEN compute_next_due_from(first_payment_date, period, 1,
                                                            today)
                                 ELSE ValueError
                     \* last_paid is assigned before the recurrence is computed
                     last_paid == IF first_payment_date # NoDate
                                  THEN first_payment_date ELSE bill.last_paid
                     next_due == IF computed # ValueError THEN computed ELSE bill.next_due
                 IN /\ bills' = (bills \ {bill}) \cup
                           {[bill EXCEPT !.amount_cents = amount_cents,
                                         !.last_paid = last_paid,
                                         !.next_due = next_due,
                                         !.due_date = next_due]}
                    /\ UNCHANGED <<transactions, categories>>
                    /\ ServeEdit("/bills/<bill_id>/edit", bill_id, Redirect("bills"),
                                 "Bill updated.", amount)

delete_bill(bill_id) ==
    IF PageUser = None THEN ToLanding("/bills/<bill_id>/delete", bill_id)
    ELSE LET found == RowsOfUser(bills, bill_id, PageUser)
         IN IF found = {}
            THEN /\ UNCHANGED tables
                 /\ Serve("/bills/<bill_id>/delete", bill_id, Redirect("bills"),
                          "Bill not found.", None)
            ELSE /\ bills' = bills \ found
                 /\ UNCHANGED <<transactions, categories>>
                 /\ Serve("/bills/<bill_id>/delete", bill_id, Redirect("bills"),
                          "Bill deleted.", None)

----------------------------------------------------------------------------
(* The insights, forecast and reminder agents over the agent_results table *)
(* (agents/insights_agent.py, agents/forecast_agent.py,                    *)
(* agents/reminder_agent.py). The table is kept in insertion order. The    *)
(* model's clock is coarser than the database's: rows of equal model time  *)
(* are ordered by insertion, as their microsecond created_at values are.   *)
(*                                                                         *)
(* An LLM response is a text over a small alphabet: "{" "}" "[" "]", the   *)
(* letters k (a key with its value) and x (prose), and "#" for the fence   *)
(* of a code block.                                                        *)

Hour == 3600   \* seconds

INSIGHT_AGENT_CACHE_TTL_HOURS == 12
FORECAST_AGENT_CACHE_TTL_HOURS == 24

\* The completion call raised instead of answering.
LlmRaises == <<"raise">>

R_object == <<"{", "k", "}">>
R_empty_object == <<"{", "}">>
R_list == <<"[", "]">>
R_fenced == <<"#", "{", "k", "}", "#">>
R_prefixed == <<"x", "{", "k", "}">>
R_prose == <<"x", "x">>

\* str.find(c): the first position of c (from 1), 0 when absent.
find(text, c) ==
    IF \E i \in DOMAIN text : text[i] = c
    THEN CHOOSE i \in DOMAIN text : text[i] = c /\ \A j \in 1..(i - 1) : text[j] # c
    ELSE 0

JSONDecodeError == [kind |-> "JSONDecodeError", size |-> 0]

\* json.loads(text): an object of size keys, the empty list, or the error.
json_loads(text) ==
    IF /\ Len(text) >= 2
       /\ text[1] = "{"
       /\ text[Len(text)] = "}"
       /\ \A i \in 2..(Len(text) - 1) : text[i] = "k"
    THEN [kind |-> "dict", size |-> Len(text) - 2]
    ELSE IF text = R_list THEN [kind |-> "list", size |-> 0]
    ELSE JSONDecodeError

\* text[start:] for the position start of find (from 1).
FromPosition(text, start) == SubSeq(text, start, Len(text))

\* The value an agent returns and stores as result_json. base names the
\* locally computed part ("local_insights", "heuristic", "local_summary",
\* "suggested_mapping"), ai the kind of the parsed model output carried
\* along ('ai_analysis', the merged keys, 'ai_raw' or the forecast itself),
\* raw the response text kept under 'raw' or 'ai_message'.
AgentValue(base) ==
    [base |-> base, note |-> NoText, ai |-> None, raw |-> NoText,
     ai_error |-> None, categorization_applied |-> -1,
     categorization_error |-> FALSE]

\* bool(result_json): the empty list is the one falsy value the agents store.
Truthy_json(value) == ~(value.base = None /\ value.ai = "list")

AgentResultRow(user_id, agent_name, input_text, result_json, created_at) ==
    [user_id |-> user_id, agent_name |-> agent_name, input_text |-> input_text,
     result_json |-> result_json, created_at |-> created_at]

\* db.session.add(ar); db.session.commit(): a failed commit is rolled back
\* and swallowed.
insert_or_replace(table, row, commit_ok) ==
    IF ~commit_ok THEN table
    ELSE LET same == {i \in DOMAIN table :
                         /\ table[i].user_id = row.user_id
                         /\ table[i].agent_name = row.agent_name}
         IN IF same = {} THEN Append(table, row)
            ELSE [i \in DOMAIN table |->
                     IF i = CHOOSE j \in same : TRUE THEN row ELSE table[i]]

insert(table, row, commit_ok) ==
    IF commit_ok THEN Append(table, row) ELSE table

\* .order_by(AgentResult.created_at.desc()).first() over the rows at the
\* positions match: the position of the row found, 0 for None.
first_by_created_at_desc(table, match) ==
    IF match = {} THEN 0
    ELSE CHOOSE i \in match :
             \A j \in match :
                 \/ table[j].created_at < table[i].created_at
                 \/ (table[j].created_at = table[i].created_at /\ j <= i)

\* The lookup that prefers a stored AI result to a newer deterministic row.
existing_result_preferring_ai(table, user_id, agent_name, input_text) ==
    LET same == {i \in DOMAIN table :
                    /\ table[i].user_id = user_id
                    /\ table[i].agent_name = agent_name
                    /\ table[i].input_text = input_text}
        with_ai == {i \in same : table[i].result_json.ai # None}
    IN first_by_created_at_desc(table, IF with_ai # {} THEN with_ai ELSE same)

\* AgentResult.query.filter_by(user_id=, agent_name=, input_text=)
existing_result(table, user_id, agent_name, input_text) ==
    first_by_created_at_desc(table, {i \in DOMAIN table :
                                        /\ table[i].user_id = user_id
                                        /\ table[i].agent_name = agent_name
                                        /\ table[i].input_text = input_text})

\* AgentResult.query.filter_by(user_id=, agent_name=)
latest_result(table, user_id, agent_name) ==
    first_by_created_at_desc(table, {i \in DOMAIN table :
                                        /\ table[i].user_id = user_id
                                        /\ table[i].agent_name = agent_name})

\* The age test with < in place of <=.
WithinTtl_strict(row, t, ttl_hours) == t - row.created_at < ttl_hours * Hour

\* (now - existing.created_at).total_seconds() / 3600.0 <= ttl_hours
WithinTtl(row, t, ttl_hours) == t - row.created_at <= ttl_hours * Hour

\* if existing and existing.created_at: ... age_hours <= ttl_hours
FreshRow(table, existing, t, ttl_hours) ==
    existing # 0 /\ WithinTtl(table[existing], t, ttl_hours)

RECURSIVE SumAmounts(_)
SumAmounts(rows) ==
    IF rows = {} THEN 0
    ELSE LET r == CHOOSE x \in rows : TRUE
         IN r.amount_cents + SumAmounts(rows \ {r})

\* gather_insight_context: the user's transactions and the totals of the
\* categorised ones by category name.
gather_insight_context(user_id, txns, cats) ==
    LET mine == {t \in txns : t.user_id = user_id}
        named(n) == {t \in mine : \E c \in cats : c.id = t.category_id /\ c.name = n}
        names == {c.name : c \in {c \in cats : \E t \in mine : t.category_id = c.id}}
    IN [transactions |-> mine,
        category_totals |-> {<<n, SumAmounts(named(n))>> : n \in names}]

\* _compute_insight_signature: the digest is taken as injective on what it
\* hashes, the category totals and the transaction ids.
compute_insight_signature(context) ==
    [top_cats |-> context.category_totals,
     recent_tx_ids |-> {t.id : t \in context.transactions}]

InputText(sig, suffix) == [sig |-> sig, suffix |-> suffix]

\* The categorisation pass applied to the uncategorised transactions: each
\* is mapped to cat_name by the model's answer. An empty name is skipped;
\* the category is looked up among the user's own (case-insensitively)
\* and created when missing.
apply_mapping(user_id, uncats, cat_name, txns, cats, new_id, commit_ok) ==
    LET own == {c \in cats : c.user_id = user_id /\ lower(c.name) = lower(cat_name)}
        create == own = {} /\ commit_ok /\ new_id # NoCategory
        cat_id == IF own # {} THEN (CHOOSE c \in own : TRUE).id
                  ELSE IF create THEN new_id ELSE NoCategory
        done == cat_name # <<>> /\ cat_id # NoCategory /\ commit_ok
    IN [transactions |->
            IF done
            THEN {IF t \in uncats THEN [t EXCEPT !.category_id = cat_id] ELSE t : t \in txns}
            ELSE txns,
        categories |->
            IF cat_name # <<>> /\ create
            THEN cats \cup {CategoryRow(new_id, user_id, cat_name)}
            ELSE cats,
        applied |-> IF done THEN Cardinality(uncats) ELSE 0]

\* What a run did: the value it returned (or that it raised), the tables
\* afterwards and the completion calls it made.
AgentRun(raised, returned, table, txns, cats, completions) ==
    [raised |-> raised, returned |-> returned, table |-> table,
     transactions |-> txns, categories |-> cats, llm_calls |-> completions]

\* The outcomes of a run's environment: ctx_ok (the context queries answer),
\* commit_local, commit_mapping, commit_apply, commit_ai (each commit is
\* accepted), llm_map and llm (the two completions: a text or LlmRaises),
\* cat_name (the category name the mapping answer gives every transaction).
run_insights_agent_for_user(user_id, force_ai, api_key, table, txns, cats, t, new_id, env) ==
    LET context == gather_insight_context(user_id, txns, cats)
        sig == compute_insight_signature(context)
        existing == existing_result(table, user_id, "insight_agent_v1", InputText(sig, ""))
        parsed == AgentValue("local_insights")
        table1 == insert(table, AgentResultRow(user_id, "insight_agent_v1", InputText(sig, ""),
                                               parsed, t), env.commit_local)
        uncats == {x \in context.transactions : x.category_id = NoCategory}
        \* the categorisation pass
        map_called == uncats # {}
        map_raised == map_called /\ env.llm_map = LlmRaises
        direct == json_loads(env.llm_map)
        start == find(env.llm_map, "{")
        ai_map == IF direct # JSONDecodeError THEN direct
                  ELSE IF start = 0 THEN [kind |-> "dict", size |-> 0]
                  ELSE IF json_loads(FromPosition(env.llm_map, start)) # JSONDecodeError
                  THEN json_loads(FromPosition(env.llm_map, start))
                  ELSE [kind |-> "dict", size |-> 0]
        mapped == map_called /\ ~map_raised
        table2 == IF mapped
                  THEN insert(table1,
                              AgentResultRow(user_id, "insight_agent_v1",
                                             InputText(sig, "|categorization"),
                                             [AgentValue("suggested_mapping") EXCEPT !.ai = ai_map.kind],
                                             t),
                              env.commit_mapping)
                  ELSE table1
        applies == mapped /\ ai_map.kind = "dict" /\ ai_map.size > 0
        app == IF applies
               THEN apply_mapping(user_id, uncats, env.cat_name, txns, cats, new_id, env.commit_apply)
               ELSE [transactions |-> txns, categories |-> cats, applied |-> -1]
        parsed2 == [parsed EXCEPT !.categorization_applied = app.applied,
                                  !.categorization_error = map_raised]
        \* the enhanced insights
        ai_parsed == json_loads(env.llm)
        merged == IF ai_parsed = JSONDecodeError THEN [parsed2 EXCEPT !.raw = env.llm]
                  ELSE [parsed2 EXCEPT !.ai = ai_parsed.kind]
        table3 == insert(table2, AgentResultRow(user_id, "insight_agent_v1", InputText(sig, ""),
                                                merged, t), env.commit_ai)
        calls == IF map_called THEN 2 ELSE 1
    IN IF ~env.ctx_ok THEN AgentRun(TRUE, AgentValue(None), table, txns, cats, 0)
       ELSE IF FreshRow(table, existing, t, INSIGHT_AGENT_CACHE_TTL_HOURS) /\ ~force_ai
       THEN AgentRun(FALSE, table[existing].result_json, table, txns, cats, 0)
       ELSE IF ~force_ai THEN AgentRun(FALSE, parsed, table1, txns, cats, 0)
       ELSE IF ~api_key
       THEN AgentRun(FALSE,
                     [parsed EXCEPT !.note = <<"OPENAI_API_KEY not set; returning local insights.">>],
                     table1, txns, cats, 0)
       ELSE IF env.llm = LlmRaises
       THEN AgentRun(FALSE, [parsed2 EXCEPT !.ai_error = "str(e)"],
                     table2, app.transactions, app.categories, calls)
       ELSE AgentRun(FALSE, merged, table3, app.transactions, app.categories, calls)

\* gather_forecast_context: the user's income and expense totals by month;
\* the model's transactions all fall in one month.
gather_forecast_context(user_id, txns) ==
    LET mine == {x \in txns : x.user_id = user_id}
    IN [monthly_history |->
            IF mine = {} THEN {}
            ELSE {[income_cents |-> SumAmounts({x \in mine : x.txn_type = "income"}),
                   expense_cents |-> SumAmounts({x \in mine : x.txn_type = "expense"})]}]

\* _compute_forecast_signature: the digest of the monthly history.
compute_forecast_signature(context) == context.monthly_history

run_forecast_agent_for_user(user_id, force_ai, api_key, table, txns, cats, t, env) ==
    LET context == gather_forecast_context(user_id, txns)
        heuristic == AgentValue("heuristic")
        sig == compute_forecast_signature(context)
        existing == existing_result(table, user_id, "forecast_agent_v1", InputText(sig, ""))
        table1 == insert(table, AgentResultRow(user_id, "forecast_agent_v1", InputText(sig, ""),
                                               heuristic, t), env.commit_local)
        loaded == json_loads(env.llm)
        parsed == IF loaded = JSONDecodeError THEN heuristic
                  ELSE [AgentValue(None) EXCEPT !.ai = loaded.kind]
        table2 == insert(table1, AgentResultRow(user_id, "forecast_agent_v1", InputText(sig, ""),
                                                parsed, t), env.commit_ai)
    IN IF ~env.ctx_ok THEN AgentRun(TRUE, AgentValue(None), table, txns, cats, 0)
       ELSE IF FreshRow(table, existing, t, FORECAST_AGENT_CACHE_TTL_HOURS) /\ ~force_ai
       THEN AgentRun(FALSE,
                     IF Truthy_json(table[existing].result_json)
                     THEN table[existing].result_json ELSE heuristic,
                     table, txns, cats, 0)
       ELSE IF ~force_ai THEN AgentRun(FALSE, heuristic, table1, txns, cats, 0)
       ELSE IF ~api_key
       THEN AgentRun(FALSE,
                     [heuristic EXCEPT !.note = <<"OPENAI_API_KEY not set; returning heuristic forecast.">>],
                     table1, txns, cats, 0)
       ELSE IF env.llm = LlmRaises THEN AgentRun(FALSE, heuristic, table1, txns, cats, 1)
       ELSE AgentRun(FALSE, parsed, table2, txns, cats, 1)

\* What a reminder run did: an AgentRun and the limiter's queues afterwards.
ReminderRun(run, rpm, rpd) == [run |-> run, rpm |-> rpm, rpd |-> rpd]

\* run_reminder_agent_for_user. rpm and rpd are the limiter's queues; a
\* forced run with a key consults check_limits and records the request.
run_reminder_agent_for_user(user_id, force_ai, api_key, table, txns, cats, t, rpm, rpd, env) ==
    LET parsed == AgentValue("local_summary")
        rpm1 == DropExpired(rpm, t, Minute)
        rpd1 == DropExpired(rpd, t, Day)
        res == check_limits(rpm1, rpd1)
        rpm2 == Append(rpm1, t)
        rpd2 == Append(rpd1, t)
        response_text == strip(env.llm)
        ai_analysis == json_loads(response_text)
        enhanced ==
            IF env.llm = LlmRaises THEN [parsed EXCEPT !.ai_error = "str(e)"]
            ELSE IF ai_analysis = JSONDecodeError
            THEN [parsed EXCEPT !.raw = response_text,
                                !.ai_error = "Response was not valid JSON"]
            ELSE IF ai_analysis.kind = "list"
            THEN \* ai_analysis.get raises AttributeError after the assignment
                 [parsed EXCEPT !.ai = "list", !.ai_error = "str(e)"]
            ELSE [parsed EXCEPT !.ai = "dict"]
        sig == InputText(<<"reminder_summary", user_id, t>>, "")
        persist(value, tbl) ==
            insert(tbl, AgentResultRow(user_id, "reminder_agent_v1", sig, value, t),
                   env.commit_local)
    IN IF ~env.ctx_ok
       THEN ReminderRun(AgentRun(TRUE, AgentValue(None), table, txns, cats, 0), rpm, rpd)
       ELSE IF ~force_ai
       THEN ReminderRun(AgentRun(FALSE, parsed, persist(parsed, table), txns, cats, 0), rpm, rpd)
       ELSE IF ~api_key
       THEN ReminderRun(AgentRun(FALSE,
                                 [parsed EXCEPT !.note = <<"GROQ_API_KEY not set; returning local summary.">>],
                                 table, txns, cats, 0), rpm, rpd)
       ELSE IF ~res[1]
       THEN ReminderRun(AgentRun(FALSE, [parsed EXCEPT !.note = res[2]], table, txns, cats, 0),
                        rpm1, rpd1)
       ELSE ReminderRun(AgentRun(FALSE, enhanced, persist(enhanced, table), txns, cats, 1),
                        rpm2, rpd2)

\* What a reader found: the row's value and time, or nothing.
NothingRead == [found |-> FALSE, result_json |-> AgentValue(None), created_at |-> 0]

RowRead(table, i) ==
    IF i = 0 THEN NothingRead
    ELSE [found |-> TRUE, result_json |-> table[i].result_json,
          created_at |-> table[i].created_at]

NoAgentRun ==
    [op |-> None, agent |-> None, user |-> None, force_ai |-> FALSE, api_key |-> FALSE,
     llm |-> NoText, raised |-> FALSE, returned |-> AgentValue(None),
     read |-> NothingRead, rows_before |-> 0, llm_calls |-> 0, at |-> 0,
     commit_local |-> TRUE, calls |-> 0]

\* The record of a run: what was asked, what came back, what was there
\* before. The key is recorded when the run read it, the response when the
\* run asked for it; commit_local is whether the database accepts the commit
\* of the run's deterministic row.
Ran(agent, user_id, force_ai, api_key, env, run) ==
    [op |-> "run", agent |-> agent, user |-> user_id, force_ai |-> force_ai,
     api_key |-> (force_ai /\ ~run.raised /\ api_key),
     llm |-> IF run.llm_calls > 0 THEN env.llm ELSE NoText,
     raised |-> run.raised, returned |-> run.returned,
     read |-> NothingRead, rows_before |-> Len(agent_results),
     llm_calls |-> run.llm_calls, at |-> now, commit_local |-> env.commit_local,
     calls |-> agent_out.calls + 1]

NextCategoryId ==
    IF FreshIds(categories, CategoryIds) = {} THEN NoCategory
    ELSE CHOOSE id \in FreshIds(categories, CategoryIds) : TRUE

RunInsightsAgent(user_id, force_ai, api_key, env) ==
    LET run == run_insights_agent_for_user(user_id, force_ai, api_key, agent_results,
                                           transactions, categories, now, NextCategoryId, env)
    IN /\ agent_results' = run.table
       /\ transactions' = run.transactions
       /\ categories' = run.categories
       /\ agent_out' = Ran("insight_agent_v1", user_id, force_ai, api_key, env, run)
       /\ UNCHANGED <<now, requests_per_minute, requests_per_day>>

RunForecastAgent(user_id, force_ai, api_key, env) ==
    LET run == run_forecast_agent_for_user(user_id, force_ai, api_key, agent_results,
                                           transactions, categories, now, env)
    IN /\ agent_results' = run.table
       /\ agent_out' = Ran("forecast_agent_v1", user_id, force_ai, api_key, env, run)
       /\ UNCHANGED <<now, requests_per_minute, requests_per_day, transactions, categories>>

RunReminderAgent(user_id, force_ai, api_key, env) ==
    LET r == run_reminder_agent_for_user(user_id, force_ai, api_key, agent_results,
                                         transactions, categories, now,
                                         requests_per_minute, requests_per_day, env)
    IN /\ agent_results' = r.run.table
       /\ requests_per_minute' = r.rpm
       /\ requests_per_day' = r.rpd
       /\ agent_out' = Ran("reminder_agent_v1", user_id, force_ai, api_key, env, r.run)
       /\ UNCHANGED <<now, transactions, categories>>

\* The readers of app.py and chat_agent.py: the latest row of one agent for
\* one user, whatever its input_text.
ReadLatest(user_id, agent_name) ==
    /\ agent_out' = [NoAgentRun EXCEPT !.op = "read", !.agent = agent_name, !.user = user_id,
                                       !.read = RowRead(agent_results,
                                                       latest_result(agent_results, user_id, agent_name)),
                                       !.rows_before = Len(agent_results),
                                       !.at = now, !.calls = agent_out.calls + 1]
    /\ UNCHANGED <<now, agent_results, requests_per_minute, requests_per_day,
                   transactions, categories>>

AgentTickHours == 12
MaxAgentTicks == 2

HoursPass ==
    /\ now + AgentTickHours * Hour <= StartTime + MaxAgentTicks * AgentTickHours * Hour
    /\ now' = now + AgentTickHours * Hour
    /\ UNCHANGED <<agent_results, agent_out, requests_per_minute, requests_per_day,
                   transactions, categories>>

----------------------------------------------------------------------------
(* The week-over-week change of _local_insights (agents/insights_agent.py) *)
(* for the expense totals of the previous and the current seven days.      *)

DigitChar(d) ==
    CASE d = 0 -> "0" [] d = 1 -> "1" [] d = 2 -> "2" [] d = 3 -> "3"
      [] d = 4 -> "4" [] d = 5 -> "5" [] d = 6 -> "6" [] d = 7 -> "7"
      [] d = 8 -> "8" [] d = 9 -> "9"

\* str(n) for a natural number.
RECURSIVE NatText(_)
NatText(n) ==
    IF n < 10 THEN <<DigitChar(n)>>
    ELSE Append(NatText(n \div 10), DigitChar(n % 10))

\* str(n) for an integer, as an f-string renders it.
IntText(n) == IF n < 0 THEN <<"-">> \o NatText(-n) ELSE NatText(n)

\* Pairs (prev, this) up to 60 whose float quotient ((this - prev) / prev)
\* * 100 falls on the other side of the half than the exact quotient, with
\* the value round() gives.
InexactQuotients == {<<40, 17, -57>>}

\* round(x) for x = num / den with den > 0: to the nearest integer, a half
\* to the even neighbour.
round_half_even(num, den) ==
    LET f == num \div den
        twice == 2 * (num - f * den)
    IN IF twice > den THEN f + 1
       ELSE IF twice < den THEN f
       ELSE IF f % 2 = 0 THEN f ELSE f + 1

\* round(((this_week_sum - prev_week_sum) / prev_week_sum) * 100)
round_change(prev_week_sum, this_week_sum) ==
    IF \E q \in InexactQuotients : q[1] = prev_week_sum /\ q[2] = this_week_sum
    THEN (CHOOSE q \in InexactQuotients : q[1] = prev_week_sum /\ q[2] = this_week_sum)[3]
    ELSE round_half_even((this_week_sum - prev_week_sum) * 100, prev_week_sum)

week_over_week(prev_week_sum, this_week_sum) ==
    IF prev_week_sum > 0
    THEN IntText(round_change(prev_week_sum, this_week_sum)) \o <<"%">>
    ELSE IF this_week_sum > 0 THEN <<"+", "1", "0", "0", "%">>
    ELSE <<"0", "%">>

\* _local_insights for a context whose expenses sum to wow_in.prev in the
\* previous window and to wow_in.this in the current one.
LocalInsights ==
    /\ wow_out = NoText
    /\ wow_out' = week_over_week(wow_in.prev, wow_in.this)
    /\ UNCHANGED wow_in

----------------------------------------------------------------------------
(* sanitize_ticker and is_valid_ticker (agents/investment_agent.py).       *)
(* None is the text NoText.                                                *)

NL == "\n"

LowerLetters ==
    <<"a", "b", "c", "d", "e", "f", "g", "h", "i", "j", "k", "l", "m",
      "n", "o", "p", "q", "r", "s", "t", "u", "v", "w", "x", "y", "z">>

UpperLetters ==
    <<"A", "B", "C", "D", "E", "F", "G", "H", "I", "J", "K", "L", "M",
      "N", "O", "P", "Q", "R", "S", "T", "U", "V", "W", "X", "Y", "Z">>

\* str.upper() on ASCII texts.
UpperChar(c) ==
    IF \E i \in DOMAIN LowerLetters : LowerLetters[i] = c
    THEN UpperLetters[CHOOSE i \in DOMAIN LowerLetters : LowerLetters[i] = c]
    ELSE c

upper(text) == [i \in DOMAIN text |-> UpperChar(text[i])]

\* The characters str.strip() removes, of those the model draws from.
Whitespace == {" ", NL}

\* s.strip('\"\'{}[]()')
Surrounding == {"\"", "'", "{", "}", "[", "]", "(", ")"}

\* str.strip(chars): leading and trailing characters of chars removed.
RECURSIVE strip_chars(_, _)
strip_chars(text, chars) ==
    IF text = <<>> THEN text
    ELSE IF Head(text) \in chars THEN strip_chars(Tail(text), chars)
    ELSE IF text[Len(text)] \in chars
    THEN strip_chars(SubSeq(text, 1, Len(text) - 1), chars)
    ELSE text

\* [A-Z0-9\.\-]
IsTickerChar(c) ==
    \/ \E i \in DOMAIN UpperLetters : UpperLetters[i] = c
    \/ IsDigit(c)
    \/ c \in {".", "-"}

\* sanitize_ticker that keeps a leading dollar sign's successor only.
sanitize_ticker_unfiltered(t) ==
    IF t = NoText \/ t = <<>> THEN <<>>
    ELSE LET s == strip_chars(upper(strip_chars(t, Whitespace)), Surrounding)
         IN IF s # <<>> /\ Head(s) = "$" THEN Tail(s) ELSE s

sanitize_ticker(t) ==
    IF t = NoText \/ t = <<>> THEN <<>>
    ELSE LET s == strip_chars(upper(strip_chars(t, Whitespace)), Surrounding)
             undollared == IF s # <<>> /\ Head(s) = "$" THEN Tail(s) ELSE s
         IN SelectSeq(undollared, IsTickerChar)

TickerMaxLen == 10

\* TICKER_RE.match(s) for ^[A-Z0-9\.\-]{1,10}$ : the dollar also matches
\* before a newline that ends the text.
TICKER_RE_match(s) ==
    LET body == IF s # <<>> /\ s[Len(s)] = NL THEN SubSeq(s, 1, Len(s) - 1) ELSE s
    IN /\ Len(body) >= 1
       /\ Len(body) <= TickerMaxLen
       /\ \A i \in DOMAIN body : IsTickerChar(body[i])

is_valid_ticker(s) == s # <<>> /\ TICKER_RE_match(s)

NoTicker ==
    [called |-> None, sanitized |-> <<>>, again |-> <<>>, valid |-> FALSE]

\* ticker_clean = sanitize_ticker(ticker); is_valid_ticker(ticker_clean),
\* and the sanitizer applied to its own result.
SanitizeTicker ==
    /\ ticker_out = NoTicker
    /\ LET ticker_clean == sanitize_ticker(ticker_in)
       IN ticker_out' = [called |-> "sanitize_ticker", sanitized |-> ticker_clean,
                         again |-> sanitize_ticker(ticker_clean),
                         valid |-> is_valid_ticker(ticker_clean)]
    /\ UNCHANGED ticker_in

\* is_valid_ticker applied to a text as given.
IsValidTicker ==
    /\ ticker_out = NoTicker
    /\ ticker_in # NoText
    /\ ticker_out' = [NoTicker EXCEPT !.called = "is_valid_ticker",
                                      !.valid = is_valid_ticker(ticker_in)]
    /\ UNCHANGED ticker_in

----------------------------------------------------------------------------
(* The investor planning graph (agents/langgraph_investor_graph.py), run   *)
(* the way LangGraph runs a compiled StateGraph: in supersteps. The nodes  *)
(* of a superstep read the state as it was when the step began and run in  *)
(* any order; their updates are applied when all of them have returned,    *)
(* and the edges then choose the nodes of the next step. A text is a       *)
(* sequence of words.                                                      *)

END == "__end__"

GraphNodes ==
    {"analyze_profile", "plan_research", "fetch_market_data", "analyze_macro",
     "build_portfolio", "generate_proposal"}

\* f"LLM error: {e}"
LlmErrorText == <<"LLM", "error:", "e">>

\* What call_gemini may answer: a text naming tickers, one naming none, or
\* LlmRaises when it raises.
GeminiAnswers == {<<"buy", "AAPL", "and", "VTI">>, <<"hold">>, LlmRaises}

llm_invoke_uncaught(answer) == answer

\* _llm_invoke: the answer, or the error text when call_gemini raised.
llm_invoke(answer) == IF answer = LlmRaises THEN LlmErrorText ELSE answer

\* token.isupper() and 1 < len(token) <= 5, on the words the model uses.
IsTickerToken(token) == token \in {"LLM", "AAPL", "VTI"}

\* The update a node returns: the fields it writes, or that it raised.
Update(fields) == [raised |-> FALSE, fields |-> fields]

NodeRaised == [raised |-> TRUE, fields |-> <<>>]

\* A node that sets one field from the LLM's text and returns the state.
SetField(state, field, text) ==
    IF text = LlmRaises THEN NodeRaised
    ELSE Update([f \in DOMAIN state |-> IF f = field THEN text ELSE state[f]])

analyze_investor_profile(state, answer) == SetField(state, "profile", llm_invoke(answer))

plan_research(state, answer) == SetField(state, "research_plan", llm_invoke(answer))

route_ignoring_scope(state) == {"build_portfolio"}

route_based_on_scope(state) ==
    IF state.scope = "comprehensive" THEN {"fetch_market_data", "analyze_macro"}
    ELSE {"build_portfolio"}

fetch_market_data(state, answer) ==
    LET tickers == SelectSeq(state.research_plan, IsTickerToken)
        summary == llm_invoke(answer)
    IN IF summary = LlmRaises THEN NodeRaised
       ELSE Update([market_data |->
                       [tickers |-> tickers,
                        history |-> {tickers[i] : i \in DOMAIN tickers},
                        llm_summary |-> summary]])

analyze_macro(state, answer) ==
    IF llm_invoke(answer) = LlmRaises THEN NodeRaised
    ELSE Update([macro_analysis |-> llm_invoke(answer)])

build_portfolio(state, answer) == SetField(state, "portfolio", llm_invoke(answer))

generate_proposal(state, answer) == SetField(state, "proposal", llm_invoke(answer))

NodeFunction(node, state, answer) ==
    CASE node = "analyze_profile" -> analyze_investor_profile(state, answer)
      [] node = "plan_research" -> plan_research(state, answer)
      [] node = "fetch_market_data" -> fetch_market_data(state, answer)
      [] node = "analyze_macro" -> analyze_macro(state, answer)
      [] node = "build_portfolio" -> build_portfolio(state, answer)
      [] node = "generate_proposal" -> generate_proposal(state, answer)

\* build_graph's edges: the nodes a finished node triggers by itself.
Successors(node, state) ==
    CASE node = "analyze_profile" -> {"plan_research"}
      [] node = "plan_research" -> route_based_on_scope(state)
      [] node = "build_portfolio" -> {"generate_proposal"}
      [] node = "generate_proposal" -> {END}
      [] OTHER -> {}

\* g.add_edge(['fetch_market_data', 'analyze_macro'], 'build_portfolio')
JoinSources == {"fetch_market_data", "analyze_macro"}

\* The state with the updates of a superstep applied.
Applied(state, updates) ==
    [f \in DOMAIN state |->
        IF \E u \in updates : f \in DOMAIN u.fields
        THEN (CHOOSE u \in updates : f \in DOMAIN u.fields).fields[f]
        ELSE state[f]]

InvestorState(scope, market_data, macro_analysis) ==
    [scope |-> scope, profile |-> <<>>, research_plan |-> <<>>,
     market_data |-> market_data, macro_analysis |-> macro_analysis,
     portfolio |-> <<>>, proposal |-> <<>>]

\* graph.invoke(input): the first superstep holds the entry point.
Invoke(input) ==
    [input |-> input, state |-> input, active |-> {"analyze_profile"},
     finished |-> {}, updates |-> {}, joined |-> {}, ran |-> <<>>,
     failed |-> {}, status |-> "running"]

NotInvoked ==
    [Invoke(InvestorState("basic", <<>>, <<>>)) EXCEPT !.active = {}, !.status = "idle"]

\* One node of the current superstep runs; the last one to return ends the
\* step.
RunNode(node, answer) ==
    /\ graph.status = "running"
    /\ node \in graph.active \ graph.finished
    /\ LET update == NodeFunction(node, graph.state, answer)
           finished == graph.finished \cup {node}
           updates == graph.updates \cup {update}
           state == Applied(graph.state, updates)
           joined == graph.joined \cup (finished \cap JoinSources)
           next == UNION {Successors(n, state) : n \in finished}
                       \cup (IF joined = JoinSources THEN {"build_portfolio"} ELSE {})
           ran == Append(graph.ran, node)
           failed == IF answer = LlmRaises THEN graph.failed \cup {node} ELSE graph.failed
       IN graph' =
            IF update.raised
            THEN [graph EXCEPT !.ran = ran, !.failed = failed, !.status = "raised"]
            ELSE IF finished # graph.active
            THEN [graph EXCEPT !.finished = finished, !.updates = updates,
                               !.ran = ran, !.failed = failed]
            ELSE [graph EXCEPT !.state = state, !.active = next \ {END},
                               !.finished = {}, !.updates = {},
                               !.joined = IF joined = JoinSources THEN {} ELSE joined,
                               !.ran = IF END \in next THEN Append(ran, END) ELSE ran,
                               !.failed = failed,
                               !.status = IF next \ {END} = {} THEN "ended" ELSE "running"]

----------------------------------------------------------------------------
(* get_or_create_category (app.py) called from concurrent request threads. *)
(* Each query and the insert with its commit is one database statement;    *)
(* the server handles requests in threads, each with its own session.      *)

\* Category.query.filter_by(user_id=user.id, name=name).first()
category_of_user(table, user, name) == {c \in table : c.user_id = user /\ c.name = name}

\* The global lookup left out.
category_global_skipped(table, name) == {}

\* Category.query.filter_by(user_id=None, name=name).first()
category_global(table, name) == {c \in table : c.user_id = None /\ c.name = name}

\* A thread's call: where it stands (at), its arguments, the table it saw
\* when it was made (seen), what it returned, whether it inserted a row, and
\* whether another call's insert was committed while it was under way.
NoCategoryCall ==
    [at |-> "idle", user |-> None, name |-> <<>>, seen |-> {}, returned |-> NoCategory,
     inserted |-> FALSE, overtaken |-> FALSE]

Returned(call, category_id, inserted) ==
    [call EXCEPT !.at = "returned", !.returned = category_id, !.inserted = inserted]

\* The call up to its first query: empty names return None; a category of
\* the user's own ends the call.
CategoryCall(th, user, raw_name) ==
    /\ goc[th].at = "idle"
    /\ LET name == strip(raw_name)
           call == [NoCategoryCall EXCEPT !.user = user, !.name = name, !.seen = categories]
           own == category_of_user(categories, user, name)
       IN goc' = [goc EXCEPT ![th] =
                     IF name = <<>> THEN Returned(call, NoCategory, FALSE)
                     ELSE IF own # {} THEN Returned(call, (CHOOSE c \in own : TRUE).id, FALSE)
                     ELSE [call EXCEPT !.at = "global"]]
    /\ UNCHANGED categories

\* if not cat: the query for a global category of that name.
CategoryGlobalQuery(th) ==
    /\ goc[th].at = "global"
    /\ LET global == category_global(categories, goc[th].name)
       IN goc' = [goc EXCEPT ![th] =
                     IF global # {} THEN Returned(@, (CHOOSE c \in global : TRUE).id, FALSE)
                     ELSE [@ EXCEPT !.at = "insert"]]
    /\ UNCHANGED categories

\* default=generate_uuid: the ids new categories may get.
CategoryCallIds == {"c1", "c2", "c3"}

\* cat = Category(user_id=user.id, name=name); add; commit. A refused commit
\* is rolled back and None is returned. Calls under way are overtaken.
CategoryInsert(th, commit_ok) ==
    /\ goc[th].at = "insert"
    /\ LET id == CHOOSE i \in CategoryCallIds : \A c \in categories : c.id # i
       IN IF commit_ok
          THEN /\ categories' = categories \cup {CategoryRow(id, goc[th].user, goc[th].name)}
               /\ goc' = [o \in Threads |->
                             IF o = th THEN Returned(goc[th], id, TRUE)
                             ELSE IF goc[o].at \in {"global", "insert"}
                             THEN [goc[o] EXCEPT !.overtaken = TRUE]
                             ELSE goc[o]]
          ELSE /\ goc' = [goc EXCEPT ![th] = Returned(@, NoCategory, FALSE)]
               /\ UNCHANGED categories

----------------------------------------------------------------------------
(* The chat agent wired to /api/chat: run_chat_agent (agents/chat_agent.py) *)
(* and the api_chat handler that logs around it (app.py).                   *)

\* str.lower() on ASCII texts.
ascii_lower(text) ==
    [i \in DOMAIN text |->
        IF \E k \in DOMAIN UpperLetters : UpperLetters[k] = text[i]
        THEN LowerLetters[CHOOSE k \in DOMAIN UpperLetters : UpperLetters[k] = text[i]]
        ELSE text[i]]

\* pattern in text
Contains(text, pattern) ==
    \E i \in 1..(Len(text) - Len(pattern) + 1) :
        SubSeq(text, i, i + Len(pattern) - 1) = pattern

S_429 == <<"4", "2", "9">>
S_rate_limit == <<"r", "a", "t", "e", " ", "l", "i", "m", "i", "t">>
S_too_many == <<"t", "o", "o", " ", "m", "a", "n", "y">>
S_server_error == <<"s", "e", "r", "v", "e", "r", " ", "e", "r", "r", "o", "r">>

\* The test without lower(): signatures in the exact case only.
IsTransient_exact_case(e) ==
    \/ Contains(e, S_429)
    \/ Contains(e, S_rate_limit)
    \/ Contains(e, S_too_many)
    \/ Contains(e, S_server_error)

\* msg = str(e).lower(); '429' in msg or 'rate limit' in msg or ...
IsTransient(e) ==
    LET msg == ascii_lower(e)
    IN \/ Contains(msg, S_429)
       \/ Contains(msg, S_rate_limit)
       \/ Contains(msg, S_too_many)
       \/ Contains(msg, S_server_error)

\* What one completions.create call can come to: the message content (a
\* text, or NoText for a content of None) or the text of the exception.
Answer(text) == [kind |-> "content", text |-> text]
Error(text) == [kind |-> "error", text |-> text]

\* 'NoneType' object has no attribute 'strip'
AttributeErrorText == <<"N", "o", "n", "e", "T", "y", "p", "e">>

InitialBackoff == 1   \* backoff = 1.0

\* for attempt in range(1, attempts + 1): the loop from its attempt-th turn.
\* outcomes[attempt] is what that call comes to; the result is the text
\* returned, the calls made and the sleeps taken, in order.
RECURSIVE attempt_loop(_, _, _, _, _)
attempt_loop(attempt, backoff, sleeps, last_err, outcomes) ==
    IF attempt > ChatAttempts
    THEN [reply |-> <<"OpenAI request failed after retries: ">> \o last_err,
          attempts |-> ChatAttempts, sleeps |-> sleeps, ended |-> "exhausted"]
    ELSE LET o == outcomes[attempt]
             e == IF o.kind = "error" THEN o.text ELSE AttributeErrorText
         IN IF o.kind = "content" /\ o.text # NoText
            THEN [reply |-> strip(o.text), attempts |-> attempt, sleeps |-> sleeps,
                  ended |-> "answered"]
            ELSE IF IsTransient(e)
            THEN attempt_loop(attempt + 1, backoff * 2, Append(sleeps, backoff), e, outcomes)
            ELSE [reply |-> <<"OpenAI request failed: ">> \o e, attempts |-> attempt,
                  sleeps |-> sleeps, ended |-> "failed"]

ChatMessage(role, content) == [role |-> role, content |-> content]

HistoryLimit == 8     \* .limit(8)

\* The query without the descending order: the user's first rows.
prior_chat_oldest(logs, user_id) ==
    LET mine == SelectSeq(logs, LAMBDA r : r.user_id = user_id)
        kept == IF Len(mine) <= HistoryLimit THEN mine ELSE SubSeq(mine, 1, HistoryLimit)
    IN [i \in DOMAIN kept |-> ChatMessage(kept[i].role, kept[i].content)]

\* ChatLog.query.filter_by(user_id=).order_by(created_at.desc()).limit(8),
\* reversed: the user's last rows, oldest first.
prior_chat(logs, user_id) ==
    LET mine == SelectSeq(logs, LAMBDA r : r.user_id = user_id)
        kept == IF Len(mine) <= HistoryLimit THEN mine
                ELSE SubSeq(mine, Len(mine) - HistoryLimit + 1, Len(mine))
    IN [i \in DOMAIN kept |-> ChatMessage(kept[i].role, kept[i].content)]

\* build_chat_prompt: the two system messages, the prior chat when there is
\* one, and the user's message.
build_chat_prompt(user_message, prior) ==
    <<ChatMessage("system", <<"rules">>), ChatMessage("system", <<"context">>)>>
        \o prior \o <<ChatMessage("user", user_message)>>

NoAttempts(reply, ended) ==
    [reply |-> reply, attempts |-> 0, sleeps |-> <<>>, ended |-> ended, messages |-> <<>>]

\* run_chat_agent(user_id, message). env: api_key (OPENAI_API_KEY is set),
\* ctx_ok (prepare_chat_context does not raise), history_ok (the ChatLog
\* query answers), client_ok (OpenAI(...) does not raise), outcomes.
run_chat_agent(user_id, message, logs, env) ==
    IF ~env.api_key
    THEN NoAttempts(<<"OPENAI_API_KEY not set. Please add it to your .env file.">>, "no key")
    ELSE IF ~env.ctx_ok
    THEN NoAttempts(<<"Error gathering context: ">>, "context")
    ELSE LET prior == IF env.history_ok THEN prior_chat(logs, user_id) ELSE <<>>
             messages == build_chat_prompt(message, prior)
         IN IF ~env.client_ok
            THEN [NoAttempts(<<"OpenAI setup failed: ">>, "setup") EXCEPT !.messages = messages]
            ELSE LET r == attempt_loop(1, InitialBackoff, <<>>, <<>>, env.outcomes)
                 IN [reply |-> r.reply, attempts |-> r.attempts, sleeps |-> r.sleeps,
                     ended |-> r.ended, messages |-> messages]

NoApiChat ==
    [called |-> FALSE, user |-> None, message |-> <<>>, status |-> 0, reply |-> <<>>,
     ended |-> None, attempts |-> 0, sleeps |-> <<>>, consumed |-> <<>>, messages |-> <<>>,
     log1_ok |-> FALSE, history_ok |-> FALSE, logs_before |-> 0, calls |-> 0]

MaxApiChatCalls == 2

\* POST /api/chat by the logged-in user: the user's row is committed, then
\* run_chat_agent runs, then the reply's row is committed; a refused commit
\* is rolled back.
ApiChat(user_id, message, log1_ok, log2_ok, env) ==
    /\ chat1.calls < MaxApiChatCalls
    /\ IF message = <<>>
       THEN /\ chat1' = [NoApiChat EXCEPT !.called = TRUE, !.user = user_id, !.status = 400,
                                          !.logs_before = Len(chat_logs),
                                          !.calls = chat1.calls + 1]
            /\ UNCHANGED chat_logs
       ELSE LET logs1 == IF log1_ok
                         THEN Append(chat_logs, ChatLogRow(user_id, "user", message))
                         ELSE chat_logs
                r == run_chat_agent(user_id, message, logs1, env)
            IN /\ chat_logs' = IF log2_ok
                               THEN Append(logs1, ChatLogRow(user_id, "assistant", r.reply))
                               ELSE logs1
               /\ chat1' = [called |-> TRUE, user |-> user_id, message |-> message,
                            status |-> 200, reply |-> r.reply, ended |-> r.ended,
                            attempts |-> r.attempts, sleeps |-> r.sleeps,
                            consumed |-> SubSeq(env.outcomes, 1, r.attempts),
                            messages |-> r.messages, log1_ok |-> log1_ok,
                            history_ok |-> (env.history_ok /\ r.messages # <<>>),
                            logs_before |-> Len(chat_logs), calls |-> chat1.calls + 1]

----------------------------------------------------------------------------
(* Specifications.                                                         *)

SimIdle ==
    /\ q1 = <<>>
    /\ q2 = <<>>
    /\ sim = [done |-> FALSE, fwd |-> <<0, 1>>, rev |-> <<0, 1>>]

ChatIdle ==
    /\ groq_api_key = FALSE
    /\ chat_cache = None
    /\ chat_logs = <<>>
    /\ llm_calls = 0
    /\ chat_out = NoChat
    /\ last_fresh = None

DueIdle ==
    /\ today = DateTime(2024, 1, 15, 12)
    /\ due_in = [start |-> NoDate, period |-> None, interval_count |-> 1]
    /\ due_out = NotComputed
    /\ due_again = NotComputed

InvestIdle ==
    /\ invest_in = [holdings |-> 0, profile_type |-> "dict", user_profile |-> EmptyProfile]
    /\ invest_out = NoAdvice

AuthIdle ==
    /\ session_user_id = None
    /\ users = {}
    /\ db_writes = 0
    /\ agent_runs = 0
    /\ api_llm_calls = 0
    /\ web_calls = 0
    /\ api_requests = 0
    /\ resp = NoResponse

StoreIdle ==
    /\ transactions = {}
    /\ bills = {}
    /\ categories = {}
    /\ page = NoPage

AgentIdle ==
    /\ agent_results = <<>>
    /\ agent_out = NoAgentRun

WowIdle ==
    /\ wow_in = [prev |-> 0, this |-> 0]
    /\ wow_out = NoText

TickerIdle ==
    /\ ticker_in = <<>>
    /\ ticker_out = NoTicker

GraphIdle == graph = NotInvoked

LastIdle ==
    /\ goc = [th \in Threads |-> NoCategoryCall]
    /\ chat1 = NoApiChat

AfterStoreIdle == AgentIdle /\ WowIdle /\ TickerIdle /\ GraphIdle /\ LastIdle

LaterIdle == StoreIdle /\ AfterStoreIdle

OthersIdle == InvestIdle /\ AuthIdle /\ LaterIdle

InitLimiter ==
    /\ OthersIdle
    /\ now = StartTime
    /\ LimiterInit
    /\ SimIdle
    /\ ChatIdle
    /\ DueIdle

NextLimiter ==
    \/ (\E t \in Threads : LimiterCheck(t)) /\ UNCHANGED <<simVars, chatVars, dueVars, investVars, authVars, laterVars>>
    \/ (\E t \in Threads : LimiterRecord(t)) /\ UNCHANGED <<simVars, chatVars, dueVars, investVars, authVars, laterVars>>
    \/ Tick /\ UNCHANGED <<limiterVars, simVars, chatVars, dueVars, investVars, authVars, laterVars>>

SpecLimiter == InitLimiter /\ [][NextLimiter]_vars

InitSim ==
    /\ OthersIdle
    /\ now = StartTime
    /\ LimiterInit
    /\ ChatIdle
    /\ DueIdle
    /\ q1 \in SimTexts
    /\ q2 \in SimTexts
    /\ sim = [done |-> FALSE, fwd |-> <<0, 1>>, rev |-> <<0, 1>>]

\* similarity_score(q1, q2) and similarity_score(q2, q1) are computed.
ComputeSimilarity ==
    /\ ~sim.done
    /\ sim' = [done |-> TRUE, fwd |-> similarity_score(q1, q2),
               rev |-> similarity_score(q2, q1)]
    /\ UNCHANGED <<q1, q2>>

NextSim ==
    ComputeSimilarity /\ UNCHANGED <<now, limiterVars, chatVars, dueVars, investVars, authVars, laterVars>>

SpecSim == InitSim /\ [][NextSim]_vars

\* Single-letter words that are not stop words give texts of chosen overlap.
Q_bcd == <<"b", " ", "c", " ", "d">>
Q_bcde == Q_bcd \o <<" ", "e">>
Q_bcdef == Q_bcde \o <<" ", "f">>
Q_bcdefgh == Q_bcdef \o <<" ", "g", " ", "h">>
Q_what_is == W_what \o SP \o W_is

ChatQuestions == {Q_bcd, Q_bcdef, Q_what_is}

\* The user whose chat requests are followed; rows of the other user are in
\* the tables.
ChatCallers == {"u1"}

CacheRow(uid, question, answer, age, hits) ==
    [user_id |-> uid, question_text |-> question, answer_text |-> answer,
     similarity_score |-> <<1, 1>>, cached_at |-> StartTime - age,
     expires_at |-> StartTime - age + CacheDays * Day, hit_count |-> hits]

\* The chat_cache table as the process may find it: absent (db.create_all
\* creates tables for the classes of models.py only), empty, or holding rows.
InitialCaches ==
    {None,
     <<>>,
     <<CacheRow("u1", Q_bcd, "C1", Day, 0)>>,
     <<CacheRow("u1", Q_bcde, "C1", Day, 0), CacheRow("u1", Q_bcd, "C2", Day, 0)>>,
     <<CacheRow("u1", Q_bcde, "C1", Day, 1), CacheRow("u1", Q_bcde, "C2", Day, 1)>>,
     <<CacheRow("u1", Q_bcdefgh, "C1", Day, 0), CacheRow("u2", Q_bcdef, "C2", Day, 2)>>,
     <<CacheRow("u1", Q_bcd, "C1", (CacheDays - 1) * Day, 0)>>,
     <<CacheRow("u1", Q_what_is, "C1", Day, 0)>>}

\* The limiter as earlier requests of any call site left it: n requests
\* recorded at StartTime.
InitialLoads == {0, RPM_LIMIT - 1, RPM_LIMIT}

InitChat ==
    /\ OthersIdle
    /\ now = StartTime
    /\ \E n \in InitialLoads :
          /\ requests_per_minute = [i \in 1..n |-> StartTime]
          /\ requests_per_day = [i \in 1..n |-> StartTime]
    /\ pc = [t \in Threads |-> "idle"]
    /\ chk = NoCheck
    /\ SimIdle
    /\ DueIdle
    /\ groq_api_key \in BOOLEAN
    /\ chat_cache \in InitialCaches
    /\ chat_logs = <<>>
    /\ llm_calls = 0
    /\ chat_out = NoChat
    /\ last_fresh = None

\* A day passes between two chat requests.
MaxChatDays == 1
DayPasses ==
    /\ now + Day <= StartTime + MaxChatDays * Day
    /\ now' = now + Day

NextChat ==
    \/ /\ \E uid \in ChatCallers, message \in ChatQuestions, ctx_ok \in BOOLEAN, log_ok \in BOOLEAN :
            \E llm \in IF ctx_ok THEN LlmAnswers \cup {"error"} ELSE {"error"} :
                RunChatAgentV2(uid, message, ctx_ok, llm, log_ok)
       /\ UNCHANGED <<simVars, dueVars, investVars, authVars, laterVars>>
    \/ DayPasses /\ UNCHANGED <<limiterVars, simVars, chatVars, dueVars, investVars, authVars, laterVars>>

SpecChat == InitChat /\ [][NextChat]_vars

InitDue ==
    /\ OthersIdle
    /\ now = StartTime
    /\ LimiterInit
    /\ SimIdle
    /\ ChatIdle
    /\ today \in DueNows
    /\ due_in \in [start : DueStarts, period : DuePeriods, interval_count : DueIntervals]
    /\ due_out = NotComputed
    /\ due_again = NotComputed

NextDue ==
    \/ ComputeNextDue /\ UNCHANGED <<now, limiterVars, simVars, chatVars, investVars, authVars, laterVars>>
    \/ TimePasses /\ UNCHANGED <<now, limiterVars, simVars, chatVars, due_in, due_out,
                                 due_again, investVars, authVars, laterVars>>
    \/ RecomputeFromNextDue /\ UNCHANGED <<now, limiterVars, simVars, chatVars, investVars, authVars, laterVars>>

SpecDue == InitDue /\ [][NextDue]_vars

InitInvest ==
    /\ now = StartTime
    /\ LimiterInit
    /\ SimIdle
    /\ ChatIdle
    /\ DueIdle
    /\ AuthIdle
    /\ LaterIdle
    /\ invest_in \in InvestInputs
    /\ invest_out = NoAdvice

NextInvest ==
    InvestmentAdvice /\ UNCHANGED <<now, limiterVars, simVars, chatVars, dueVars, authVars, laterVars>>

SpecInvest == InitInvest /\ [][NextInvest]_vars

InitAuth ==
    /\ now = StartTime
    /\ LimiterInit
    /\ SimIdle
    /\ ChatIdle
    /\ DueIdle
    /\ InvestIdle
    /\ LaterIdle
    /\ users \in {{}, {"u1"}}
    /\ session_user_id \in {None} \cup UserIds
    /\ db_writes = 0
    /\ agent_runs = 0
    /\ api_llm_calls = 0
    /\ web_calls = 0
    /\ api_requests = 0
    /\ resp = NoResponse

notAuthVars == <<now, limiterVars, simVars, chatVars, dueVars, investVars, laterVars>>

NextAuth ==
    \/ (\E db1, db2 \in DbOutcomes : api_dashboard_trigger_refresh(db1, db2))
           /\ UNCHANGED notAuthVars
    \/ (\E db1, db2 \in DbOutcomes, message, log1_ok, log2_ok \in BOOLEAN,
            llm_attempts \in 0..ChatAttempts :
            api_chat(db1, db2, message, log1_ok, llm_attempts, log2_ok))
           /\ UNCHANGED notAuthVars
    \/ (\E db1, db2 \in DbOutcomes, url \in BOOLEAN : api_web_fetch(db1, db2, url))
           /\ UNCHANGED notAuthVars
    \/ (\E db1, db2 \in DbOutcomes, url \in BOOLEAN : api_web_post(db1, db2, url))
           /\ UNCHANGED notAuthVars
    \/ (\E db1, db2 \in DbOutcomes, use_agent, agent_ok \in BOOLEAN, llm \in LlmTexts,
            holdings \in 0..MaxHoldings :
            api_invest_advice(db1, db2, use_agent, agent_ok, llm, holdings))
           /\ UNCHANGED notAuthVars
    \/ (\E db1, db2 \in DbOutcomes, query_ok \in BOOLEAN :
            api_transactions_recent(db1, db2, query_ok))
           /\ UNCHANGED notAuthVars
    \/ (\E db1, db2 \in DbOutcomes, llm_called, stored, raised \in BOOLEAN :
            api_agents_insights_run(db1, db2, llm_called, stored, raised))
           /\ UNCHANGED notAuthVars
    \/ (\E db1, db2 \in DbOutcomes, llm_called, stored, raised \in BOOLEAN :
            api_agents_reminders_run(db1, db2, llm_called, stored, raised))
           /\ UNCHANGED notAuthVars
    \/ (\E db1, db2 \in DbOutcomes, query_ok \in BOOLEAN :
            api_agents_reminders_get(db1, db2, query_ok))
           /\ UNCHANGED notAuthVars
    \/ (\E db1, db2 \in DbOutcomes, query_ok \in BOOLEAN :
            api_agents_insights_get(db1, db2, query_ok))
           /\ UNCHANGED notAuthVars
    \/ (\E db1, db2 \in DbOutcomes, llm_called, stored, raised \in BOOLEAN :
            api_agents_forecast_run(db1, db2, llm_called, stored, raised))
           /\ UNCHANGED notAuthVars
    \/ (\E db1, db2 \in DbOutcomes, query_ok \in BOOLEAN :
            api_agents_forecast_get(db1, db2, query_ok))
           /\ UNCHANGED notAuthVars
    \/ (\E db1, db2 \in DbOutcomes, query_ok \in BOOLEAN :
            api_dashboard_summary(db1, db2, query_ok))
           /\ UNCHANGED notAuthVars
    \/ (\E db1, db2 \in DbOutcomes, query_ok \in BOOLEAN :
            api_notifications_json(db1, db2, query_ok))
           /\ UNCHANGED notAuthVars
    \/ (\E db1, db2 \in DbOutcomes, query_ok \in BOOLEAN :
            api_transactions(db1, db2, query_ok))
           /\ UNCHANGED notAuthVars
    \/ (\E db1, db2 \in DbOutcomes : api_dashboard_data(db1, db2))
           /\ UNCHANGED notAuthVars
    \/ (\E u \in UserIds, password_ok \in BOOLEAN : login(u, password_ok))
           /\ UNCHANGED notAuthVars
    \/ logout /\ UNCHANGED notAuthVars

SpecAuth == InitAuth /\ [][NextAuth]_vars

MaxPageRequests == 2

T_tea == <<"t", "e", "a">>
T_food == <<"f", "o", "o", "d">>
T_5 == <<"5">>
T_2_05 == <<"2", ".", "0", "5">>

\* "paid 500 for groceries and 200 for parking"
T_paid_500_200 ==
    <<"p", "a", "i", "d", " ", "5", "0", "0", " ", "f", "o", "r", " ",
      "g", "r", "o", "c", "e", "r", "i", "e", "s", " ", "a", "n", "d", " ",
      "2", "0", "0", " ", "f", "o", "r", " ", "p", "a", "r", "k", "i", "n", "g">>

FormAmounts == {NoText, <<"x">>, T_5, T_2_05}
FormDescriptions == {NoText, T_tea}
FormCategories == {<<>>, T_food}
FormTxnTypes == {"", "income"}
FormPeriods == {"monthly", ""}
FormDates == {NoDate, DateTime(2023, 12, 31, 0)}
QuickTexts == {<<>>, SP, T_tea, T_food \o SP \o T_2_05, T_paid_500_200}

\* What the <int:...> converter of a route lets through.
IntRouteIds == {"7"}

StaleUserId == "u9"

InitialCategories == {{}, {CategoryRow("c1", None, T_food)}}

InitPages ==
    /\ now = StartTime
    /\ LimiterInit
    /\ SimIdle
    /\ ChatIdle
    /\ DueIdle
    /\ InvestIdle
    /\ users = UserIds
    /\ session_user_id \in {None, StaleUserId} \cup UserIds
    /\ db_writes = 0
    /\ agent_runs = 0
    /\ api_llm_calls = 0
    /\ web_calls = 0
    /\ api_requests = 0
    /\ resp = NoResponse
    /\ transactions = {TransactionRow("t1", "u1", "expense", 100, T_tea, NoCategory),
                       TransactionRow("t2", "u2", "income", 200, T_tea, NoCategory)}
    /\ bills = {BillRow("b1", "u1", 100, "monthly", NoDate, NoDate, NoDate),
                BillRow("b2", "u2", 200, None, NoDate, NoDate, NoDate)}
    /\ categories \in InitialCategories
    /\ page = NoPage
    /\ AfterStoreIdle

notStoreVars == <<now, limiterVars, simVars, chatVars, dueVars, investVars, afterStoreVars>>

pageFrame == <<notStoreVars, authVars>>

\* A fresh id for a new row, when the table has room for one.
NewId(table, pool) == IF FreshIds(table, pool) = {} THEN {} ELSE {CHOOSE id \in FreshIds(table, pool) : TRUE}

NewCategoryId == IF FreshIds(categories, CategoryIds) = {} THEN NoCategory
                 ELSE CHOOSE id \in FreshIds(categories, CategoryIds) : TRUE

\* mark_bill_paid called for the session's user with the id of a stored bill.
MarkBillPaid(bill_id, commit_ok) ==
    /\ PageUser # None
    /\ LET res == mark_bill_paid(PageUser, bill_id, bills, commit_ok)
       IN /\ bills' = res.table
          /\ UNCHANGED <<transactions, categories>>
          /\ Serve("mark_bill_paid", bill_id, Redirect(None), None,
                   IF res.ok THEN "ok" ELSE res.error)

NextPages ==
    \/ page.served < MaxPageRequests /\ dashboard /\ UNCHANGED pageFrame
    \/ page.served < MaxPageRequests /\ chat /\ UNCHANGED pageFrame
    \/ page.served < MaxPageRequests /\ invest_page /\ UNCHANGED pageFrame
    \/ page.served < MaxPageRequests /\ bills_page /\ UNCHANGED pageFrame
    \/ page.served < MaxPageRequests /\ add_data /\ UNCHANGED pageFrame
    \/ page.served < MaxPageRequests /\ transactions_page /\ UNCHANGED pageFrame
    \/ page.served < MaxPageRequests /\ notifications_page /\ UNCHANGED pageFrame
    \/ page.served < MaxPageRequests /\ agents_center /\ UNCHANGED pageFrame
    \/ /\ page.served < MaxPageRequests
       /\ \E bill_id \in IntRouteIds, commit_ok \in BOOLEAN :
             notifications_mark_done(bill_id, commit_ok)
       /\ UNCHANGED pageFrame
    \/ /\ page.served < MaxPageRequests
       /\ \E bill_id \in BillIds, commit_ok \in BOOLEAN : MarkBillPaid(bill_id, commit_ok)
       /\ UNCHANGED pageFrame
    \/ /\ page.served < MaxPageRequests
       /\ \E note_id \in IntRouteIds : notifications_mark_read(note_id)
       /\ UNCHANGED pageFrame
    \/ /\ page.served < MaxPageRequests
       /\ \E note_id \in IntRouteIds : notifications_dismiss(note_id)
       /\ UNCHANGED pageFrame
    \/ /\ page.served < MaxPageRequests
       /\ \E txn_id \in TransactionIds, amount \in FormAmounts,
             description \in FormDescriptions, category_name \in FormCategories,
             txn_type \in FormTxnTypes, insert_ok \in BOOLEAN :
             edit_transaction(txn_id, amount, description, category_name, txn_type,
                              NewCategoryId, insert_ok)
       /\ UNCHANGED pageFrame
    \/ /\ page.served < MaxPageRequests
       /\ \E txn_id \in TransactionIds : delete_transaction(txn_id)
       /\ UNCHANGED pageFrame
    \/ /\ page.served < MaxPageRequests
       /\ \E id \in NewId(transactions, TransactionIds), txn_type \in FormTxnTypes,
             amount \in FormAmounts, description \in FormDescriptions,
             category_name \in FormCategories, insert_ok, commit_ok \in BOOLEAN :
             create_transaction(id, txn_type, amount, description, category_name,
                                NewCategoryId, insert_ok, commit_ok)
       /\ UNCHANGED pageFrame
    \/ /\ page.served < MaxPageRequests
       /\ \E id \in NewId(transactions, TransactionIds), form_text \in QuickTexts,
             commit_ok \in BOOLEAN :
             transaction_quick(id, form_text, commit_ok)
       /\ UNCHANGED pageFrame
    \/ /\ page.served < MaxPageRequests
       /\ \E id \in NewId(bills \cup {[id |-> "b1"], [id |-> "b2"]}, BillIds \cup {"b3"}),
             amount \in FormAmounts, period \in FormPeriods,
             first_payment_date \in FormDates :
             create_bill(id, amount, period, first_payment_date)
       /\ UNCHANGED pageFrame
    \/ /\ page.served < MaxPageRequests
       /\ \E bill_id \in BillIds, amount \in FormAmounts, period \in FormPeriods,
             first_payment_date \in FormDates :
             edit_bill(bill_id, amount, period, first_payment_date)
       /\ UNCHANGED pageFrame
    \/ /\ page.served < MaxPageRequests
       /\ \E bill_id \in BillIds : delete_bill(bill_id)
       /\ UNCHANGED pageFrame
    \/ logout /\ UNCHANGED <<notStoreVars, storeVars>>

SpecPages == InitPages /\ [][NextPages]_vars

MaxAgentRuns == 2

LlmResponses == {LlmRaises, R_object, R_empty_object, R_list, R_fenced, R_prefixed, R_prose}

\* The environment in which nothing fails and the model answers an object.
CalmEnv ==
    [ctx_ok |-> TRUE, commit_local |-> TRUE, commit_mapping |-> TRUE,
     commit_apply |-> TRUE, commit_ai |-> TRUE, llm_map |-> R_object,
     llm |-> R_object, cat_name |-> T_food]

\* The environments of a run: the calm one with one circumstance changed.
AgentEnvs ==
    {[CalmEnv EXCEPT !.llm = r] : r \in LlmResponses}
    \cup {[CalmEnv EXCEPT !.llm_map = r] : r \in {LlmRaises, R_prefixed, R_fenced}}
    \cup {[CalmEnv EXCEPT !.commit_local = FALSE], [CalmEnv EXCEPT !.commit_ai = FALSE],
          [CalmEnv EXCEPT !.commit_mapping = FALSE, !.commit_apply = FALSE],
          [CalmEnv EXCEPT !.cat_name = <<>>], [CalmEnv EXCEPT !.ctx_ok = FALSE]}

AgentNames == {"insight_agent_v1", "forecast_agent_v1", "reminder_agent_v1"}

\* RPM_LIMIT requests recorded at the start: the limiter denies the next one.
SaturatedMinute == [i \in 1..RPM_LIMIT |-> StartTime]

\* The transactions the agents find.
AgentTransactions ==
    {TransactionRow("t1", "u1", "expense", 100, T_tea, NoCategory),
     TransactionRow("t2", "u2", "income", 200, T_tea, "c1")}

\* What a forced forecast run of u1 that the model answered with an object
\* left an hour before the start: the heuristic row, then the AI row.
EarlierForecast ==
    LET sig == InputText(compute_forecast_signature(
                             gather_forecast_context("u1", AgentTransactions)), "")
    IN <<AgentResultRow("u1", "forecast_agent_v1", sig, AgentValue("heuristic"),
                        StartTime - Hour),
         AgentResultRow("u1", "forecast_agent_v1", sig,
                        [AgentValue(None) EXCEPT !.ai = "dict"], StartTime - Hour)>>

InitAgents ==
    /\ now = StartTime
    /\ requests_per_minute \in {<<>>, SaturatedMinute}
    /\ requests_per_day = requests_per_minute
    /\ pc = [t \in Threads |-> "idle"]
    /\ chk = NoCheck
    /\ SimIdle
    /\ ChatIdle
    /\ DueIdle
    /\ InvestIdle
    /\ AuthIdle
    /\ transactions = AgentTransactions
    /\ bills = {}
    /\ categories = {CategoryRow("c1", None, T_food)}
    /\ page = NoPage
    /\ agent_results \in {<<>>, EarlierForecast}
    /\ agent_out = NoAgentRun
    /\ WowIdle
    /\ TickerIdle
    /\ GraphIdle
    /\ LastIdle

agentFrame == <<pc, chk, simVars, chatVars, dueVars, investVars, authVars, bills, page,
                wowVars, tickerVars, graph, lastVars>>

NextAgents ==
    \/ /\ agent_out.calls < MaxAgentRuns
       /\ \E user_id \in UserIds, force_ai \in BOOLEAN, api_key \in BOOLEAN, env \in AgentEnvs :
              RunInsightsAgent(user_id, force_ai, api_key, env)
       /\ UNCHANGED agentFrame
    \/ /\ agent_out.calls < MaxAgentRuns
       /\ \E user_id \in UserIds, force_ai \in BOOLEAN, api_key \in BOOLEAN, env \in AgentEnvs :
              RunForecastAgent(user_id, force_ai, api_key, env)
       /\ UNCHANGED agentFrame
    \/ /\ agent_out.calls < MaxAgentRuns
       /\ \E user_id \in UserIds, force_ai \in BOOLEAN, api_key \in BOOLEAN, env \in AgentEnvs :
              RunReminderAgent(user_id, force_ai, api_key, env)
       /\ UNCHANGED agentFrame
    \/ /\ agent_out.calls < MaxAgentRuns
       /\ \E user_id \in UserIds, agent_name \in AgentNames : ReadLatest(user_id, agent_name)
       /\ UNCHANGED agentFrame
    \/ HoursPass /\ UNCHANGED agentFrame

SpecAgents == InitAgents /\ [][NextAgents]_vars

MaxWeekCents == 40

\* Weekly totals in paise: the small ones and the two of the documented case.
WeekSums == 0..MaxWeekCents \cup {1000, 1200}

InitInsights ==
    /\ now = StartTime
    /\ LimiterInit
    /\ SimIdle
    /\ ChatIdle
    /\ DueIdle
    /\ InvestIdle
    /\ AuthIdle
    /\ StoreIdle
    /\ AgentIdle
    /\ wow_in \in [prev : WeekSums, this : WeekSums]
    /\ wow_out = NoText
    /\ TickerIdle
    /\ GraphIdle
    /\ LastIdle

NextInsights ==
    LocalInsights /\ UNCHANGED <<now, limiterVars, simVars, chatVars, dueVars, investVars,
                                 authVars, storeVars, agentVars, tickerVars, graph,
                                 lastVars>>

SpecInsights == InitInsights /\ [][NextInsights]_vars

MaxTickerLen == 3

TickerAlphabet == {"a", "A", "1", ".", "-", "$", "'", " ", NL, "{"}

RECURSIVE TickerTexts(_)
TickerTexts(n) ==
    IF n = 0 THEN {<<>>}
    ELSE LET shorter == TickerTexts(n - 1)
         IN shorter \cup {Append(t, c) : t \in shorter, c \in TickerAlphabet}

K_aapl == <<"$", "a", "a", "p", "l">>
K_msft == <<"'", "M", "S", "F", "T", "'">>
K_goo_gl == <<"g", "o", "o", " ", "g", "l">>
K_ten == [i \in 1..TickerMaxLen |-> "A"]
K_eleven == [i \in 1..(TickerMaxLen + 1) |-> "A"]

TickerInputs ==
    TickerTexts(MaxTickerLen) \cup {NoText, K_aapl, K_msft, K_goo_gl, K_ten, K_eleven}

InitTicker ==
    /\ now = StartTime
    /\ LimiterInit
    /\ SimIdle
    /\ ChatIdle
    /\ DueIdle
    /\ InvestIdle
    /\ AuthIdle
    /\ StoreIdle
    /\ AgentIdle
    /\ WowIdle
    /\ ticker_in \in TickerInputs
    /\ ticker_out = NoTicker
    /\ GraphIdle
    /\ LastIdle

tickerFrame == <<now, limiterVars, simVars, chatVars, dueVars, investVars, authVars,
                 storeVars, agentVars, wowVars, graph, lastVars>>

NextTicker ==
    \/ SanitizeTicker /\ UNCHANGED tickerFrame
    \/ IsValidTicker /\ UNCHANGED tickerFrame

SpecTicker == InitTicker /\ [][NextTicker]_vars

\* The values the caller may give the two optional output fields.
GivenTexts == {<<>>, <<"given">>}

InitGraph ==
    /\ now = StartTime
    /\ LimiterInit
    /\ SimIdle
    /\ ChatIdle
    /\ DueIdle
    /\ InvestIdle
    /\ AuthIdle
    /\ StoreIdle
    /\ AgentIdle
    /\ WowIdle
    /\ TickerIdle
    /\ LastIdle
    /\ \E scope \in {"basic", "comprehensive"}, market_data \in GivenTexts,
          macro_analysis \in GivenTexts :
           graph = Invoke(InvestorState(scope, market_data, macro_analysis))

graphFrame == <<now, limiterVars, simVars, chatVars, dueVars, investVars, authVars,
                storeVars, agentVars, wowVars, tickerVars, lastVars>>

NextGraph ==
    \/ (\E answer \in GeminiAnswers : RunNode("analyze_profile", answer)) /\ UNCHANGED graphFrame
    \/ (\E answer \in GeminiAnswers : RunNode("plan_research", answer)) /\ UNCHANGED graphFrame
    \/ (\E answer \in GeminiAnswers : RunNode("fetch_market_data", answer)) /\ UNCHANGED graphFrame
    \/ (\E answer \in GeminiAnswers : RunNode("analyze_macro", answer)) /\ UNCHANGED graphFrame
    \/ (\E answer \in GeminiAnswers : RunNode("build_portfolio", answer)) /\ UNCHANGED graphFrame
    \/ (\E answer \in GeminiAnswers : RunNode("generate_proposal", answer)) /\ UNCHANGED graphFrame

SpecGraph == InitGraph /\ [][NextGraph]_vars

\* The runtime runs every node of a superstep: a node that can run does.
SpecGraphRuns == SpecGraph /\ WF_vars(NextGraph)

\* The categories table as a request may find it: empty, a global category,
\* a category of u1's own.
StoredCategories ==
    {{}, {CategoryRow("c1", None, T_food)}, {CategoryRow("c1", "u1", T_food)}}

\* request.form.get('category') as the handlers pass it on.
CategoryNames == {T_food, T_tea, SP}

InitCategories ==
    /\ now = StartTime
    /\ LimiterInit
    /\ SimIdle
    /\ ChatIdle
    /\ DueIdle
    /\ InvestIdle
    /\ AuthIdle
    /\ transactions = {}
    /\ bills = {}
    /\ categories \in StoredCategories
    /\ page = NoPage
    /\ AgentIdle
    /\ WowIdle
    /\ TickerIdle
    /\ GraphIdle
    /\ LastIdle

categoryFrame == <<now, limiterVars, simVars, chatVars, dueVars, investVars, authVars,
                   transactions, bills, page, agentVars, wowVars, tickerVars, graph,
                   chat1>>

NextCategories ==
    \/ /\ \E th \in Threads, user \in UserIds, raw_name \in CategoryNames :
             CategoryCall(th, user, raw_name)
       /\ UNCHANGED categoryFrame
    \/ (\E th \in Threads : CategoryGlobalQuery(th)) /\ UNCHANGED categoryFrame
    \/ /\ \E th \in Threads, commit_ok \in BOOLEAN : CategoryInsert(th, commit_ok)
       /\ UNCHANGED categoryFrame

SpecCategories == InitCategories /\ [][NextCategories]_vars

E_429 == <<"c", "o", "d", "e", " ", "4", "2", "9">>
E_Rate_limit == <<"R", "a", "t", "e", " ", "l", "i", "m", "i", "t">>
E_Too_Many == <<"T", "o", "o", " ", "M", "a", "n", "y">>
E_server_error == <<"s", "e", "r", "v", "e", "r", " ", "e", "r", "r", "o", "r">>
E_ratelimit == <<"r", "a", "t", "e", "l", "i", "m", "i", "t">>
E_bad_key == <<"b", "a", "d", " ", "k", "e", "y">>
A_ok == <<" ", "o", "k", " ">>

\* What a completion call may come to: signatures in either case, errors
\* without one, an answer, an answer without content.
RetriedOutcomes == {Error(E_429), Error(E_Rate_limit), Error(E_Too_Many), Error(E_server_error)}
FinalOutcomes == {Error(E_ratelimit), Error(E_bad_key), Answer(A_ok), Answer(NoText)}

\* The calls of one run, as far as the loop can get: every call but the last
\* one fails with a signature.
ChatScenarios ==
    {<<x>> : x \in FinalOutcomes}
    \cup {<<x, y>> : x \in RetriedOutcomes, y \in FinalOutcomes}
    \cup {<<x, y, z>> : x \in {Error(E_429), Error(E_Rate_limit)},
                        y \in {Error(E_Too_Many), Error(E_server_error)},
                        z \in RetriedOutcomes \cup FinalOutcomes}

CalmChat ==
    [api_key |-> TRUE, ctx_ok |-> TRUE, history_ok |-> TRUE, client_ok |-> TRUE,
     outcomes |-> <<Answer(A_ok)>>]

ChatEnvs ==
    {[CalmChat EXCEPT !.outcomes = o] : o \in ChatScenarios}
    \cup {[CalmChat EXCEPT !.api_key = FALSE], [CalmChat EXCEPT !.ctx_ok = FALSE],
          [CalmChat EXCEPT !.history_ok = FALSE], [CalmChat EXCEPT !.client_ok = FALSE]}

\* One circumstance is varied at a time: the commits are refused only while
\* the agent's surroundings are calm.
ChatRequests ==
    {[env |-> e, log1_ok |-> TRUE, log2_ok |-> TRUE] : e \in ChatEnvs}
    \cup {[env |-> CalmChat, log1_ok |-> a, log2_ok |-> b] : a, b \in BOOLEAN}

ApiChatMessages == {<<>>, T_tea, T_food}

\* The chat_logs table as a request finds it: empty, or holding eight rows
\* of u1's earlier exchanges.
EarlierChat ==
    [i \in 1..HistoryLimit |->
        ChatLogRow("u1", IF i % 2 = 1 THEN "user" ELSE "assistant",
                   IF i = 1 THEN T_tea ELSE T_food)]

InitChat1 ==
    /\ now = StartTime
    /\ LimiterInit
    /\ SimIdle
    /\ groq_api_key = FALSE
    /\ chat_cache = None
    /\ chat_logs \in {<<>>, EarlierChat}
    /\ llm_calls = 0
    /\ chat_out = NoChat
    /\ last_fresh = None
    /\ DueIdle
    /\ OthersIdle

chat1Frame == <<now, limiterVars, simVars, groq_api_key, chat_cache, llm_calls, chat_out,
                last_fresh, dueVars, investVars, authVars, storeVars, agentVars, wowVars,
                tickerVars, graph, goc>>

NextChat1 ==
    /\ \E user_id \in UserIds, message \in ApiChatMessages, r \in ChatRequests :
          ApiChat(user_id, message, r.log1_ok, r.log2_ok, r.env)
    /\ UNCHANGED chat1Frame

SpecChat1 == InitChat1 /\ [][NextChat1]_vars

----------------------------------------------------------------------------
(* C1: the limiter denies at exactly the configured boundary. A            *)
(* check_limits call answers allowed when fewer than 25 requests were      *)
(* recorded in the trailing 60 seconds (and the daily budget is open),     *)
(* answers (False, the 25-per-minute message) when 25 or more were, and    *)
(* answers allowed again once more than 60 seconds have passed since the   *)
(* last record.                                                            *)
C1_DeniesAtBoundary ==
    chk.called =>
        /\ (chk.recent < RPM_LIMIT /\ chk.day_recent < RPD_LIMIT) => chk.allowed
        /\ chk.recent >= RPM_LIMIT =>
               (~chk.allowed /\ chk.msg = <<"Rate limit", 25, "requests per minute exceeded">>)
        /\ (chk.idle_for > Minute /\ chk.day_recent < RPD_LIMIT) => chk.allowed

\* 25 requests were recorded, a check was denied, the window elapsed, and the
\* next check is allowed.
C1_Witness ==
    /\ chk.called /\ chk.allowed /\ chk.denied_before
    /\ Len(requests_per_day) >= RPM_LIMIT
    /\ chk.idle_for > Minute

(* C2: with several threads following the call-site protocol the shared    *)
(* budget is never over-committed: the per-minute queue never holds more   *)
(* than 25 timestamps at most 60 seconds old, the per-day queue never more *)
(* than 14,000 within 24 hours.                                            *)
C2_NeverOverCommitted ==
    /\ CountWithin(requests_per_minute, now, Minute) <= RPM_LIMIT
    /\ CountWithin(requests_per_day, now, Day) <= RPD_LIMIT

\* The rows of user uid in the table, whatever their age.
RowsOf(cache, uid) ==
    IF cache = None THEN {} ELSE {cache[i] : i \in {j \in DOMAIN cache : cache[j].user_id = uid}}

\* The rows of uid whose question is at least 0.75 similar to q.
SimilarRows(cache, uid, q) ==
    {r \in RowsOf(cache, uid) : FracLeq(<<75, 100>>, similarity_score(q, r.question_text))}

\* Those of them cached less than 7 days before time t.
FreshSimilarRows(cache, uid, q, t) ==
    {r \in SimilarRows(cache, uid, q) : t - r.cached_at < 7 * Day}

\* reply and similarity are the answer and the score of a row of S that no
\* row of S outscores.
AnswersBestOf(S, out) ==
    \E r \in S :
        /\ \A o \in S : FracLeq(similarity_score(out.message, o.question_text),
                                similarity_score(out.message, r.question_text))
        /\ out.reply = r.answer_text
        /\ out.similarity = PerMille(similarity_score(out.message, r.question_text))

LoggedAssistantReply(out) ==
    /\ Len(chat_logs) = out.logs_before + 1
    /\ chat_logs[Len(chat_logs)] =
           [user_id |-> out.user, role |-> "assistant", content |-> out.reply]

(* C3 as stated: the rate-limit check is the first pipeline step of        *)
(* run_chat_agent_v2: whenever the limiter denies, the call returns the    *)
(* limiter's message, makes no LLM call, and does so before any cache      *)
(* lookup, so a denied call never returns a cached or fresh answer.        *)
C3_AsStated ==
    (chat_out.called /\ chat_out.would_deny) =>
        /\ chat_out.reply = RpmMessage
        /\ ~chat_out.success /\ ~chat_out.cached
        /\ ~chat_out.llm_called
        /\ ~chat_out.looked_up

(* C3 amended: the rate-limit check of run_chat_agent_v2 comes after the   *)
(* cache lookup and context gathering, right before the LLM call. When     *)
(* that check denies, the call returns success=false with the limiter's    *)
(* message, makes no LLM call and writes no log row; no LLM call is made   *)
(* while the limiter would deny; a call answered from the cache does not   *)
(* consult the limiter at all.                                             *)
C3_DeniedBeforeLlm ==
    chat_out.called =>
        /\ chat_out.limiter = "denied" =>
               /\ chat_out.would_deny /\ chat_out.looked_up
               /\ chat_out.reply = RpmMessage
               /\ ~chat_out.success /\ ~chat_out.cached /\ ~chat_out.llm_called
               /\ Len(chat_logs) = chat_out.logs_before
        /\ chat_out.llm_called => (~chat_out.would_deny /\ chat_out.limiter = "allowed")
        /\ chat_out.cached => chat_out.limiter = "not consulted"

\* A second request found the limiter full and was denied at the gate.
C3_Witness ==
    /\ chat_out.called /\ chat_out.calls = 2
    /\ chat_out.limiter = "denied" /\ chat_out.reply = RpmMessage
    /\ Len(requests_per_minute) = RPM_LIMIT

C5_StoreThenHit ==
    /\ (chat_out.called /\ chat_out.success /\ ~chat_out.cached
            /\ normalize_question(chat_out.message) # {}) =>
           \E r \in RowsOf(chat_cache, chat_out.user) :
               /\ r.question_text = chat_out.message
               /\ r.answer_text = chat_out.reply
               /\ r.expires_at = r.cached_at + 7 * Day
    /\ (chat_out.called /\ chat_out.prev_fresh # None /\ chat_out.api_key
            /\ normalize_question(chat_out.message) # {}) =>
           ((chat_out.prev_fresh.user = chat_out.user
                /\ chat_out.prev_fresh.message = chat_out.message
                /\ chat_out.at - chat_out.prev_fresh.at < 7 * Day) =>
              (chat_out.cached /\ chat_out.reply = chat_out.prev_fresh.reply
                  /\ ~chat_out.llm_called))

(* C6: similarity_score is symmetric and bounded: for all texts q1, q2,    *)
(* similarity_score(q1, q2) = similarity_score(q2, q1) and                 *)
(* 0 <= similarity_score(q1, q2) <= 1; it is 0 whenever either normalized  *)
(* word set is empty and 1 when both are equal and non-empty.              *)
C6_SymmetricBounded ==
    sim.done =>
        /\ FracEq(sim.fwd, sim.rev)
        /\ sim.fwd[2] > 0
        /\ FracLeq(<<0, 1>>, sim.fwd) /\ FracLeq(sim.fwd, <<1, 1>>)
        /\ (normalize_question(q1) = {} \/ normalize_question(q2) = {})
               => FracEq(sim.fwd, <<0, 1>>)
        /\ (normalize_question(q1) = normalize_question(q2)
               /\ normalize_question(q1) # {}) => FracEq(sim.fwd, <<1, 1>>)

\* Two different texts with the same non-empty word set, after the
\* computation: their similarity is 1.
C6_Witness ==
    /\ sim.done
    /\ q1 # q2
    /\ normalize_question(q1) = normalize_question(q2)
    /\ Cardinality(normalize_question(q1)) = 2
    /\ sim.fwd = <<2, 2>>

(* C7 as stated: similarity("what is my balance", "what's my current       *)
(* balance") >= 0.70 and similarity("what is my balance", "show me recent  *)
(* bills") < 0.70.                                                         *)
C7_AsStated ==
    /\ (sim.done /\ q1 = Q_balance /\ q2 = Q_whats_balance)
           => FracLeq(<<70, 100>>, sim.fwd)
    /\ (sim.done /\ q1 = Q_balance /\ q2 = Q_recent_bills)
           => FracLess(sim.fwd, <<70, 100>>)

(* C7 amended: similarity("what is my balance", "what's my current         *)
(* balance") is 1/3, below 0.70 ("what's" and "current" are not stop       *)
(* words, so only "balance" is shared among three words), and              *)
(* similarity("what is my balance", "show me recent bills") is 0.          *)
C7_BalanceExamples ==
    /\ (sim.done /\ q1 = Q_balance /\ q2 = Q_whats_balance)
           => (FracEq(sim.fwd, <<1, 3>>) /\ FracLess(sim.fwd, <<70, 100>>))
    /\ (sim.done /\ q1 = Q_balance /\ q2 = Q_recent_bills)
           => FracEq(sim.fwd, <<0, 1>>)

C7_Witness ==
    sim.done /\ q1 = Q_balance /\ q2 = Q_whats_balance /\ sim.fwd[1] = 1

(* C8: the recurrence advance is monotonic and idempotent. For             *)
(* period = 'monthly', a positive interval and a start date in the past,   *)
(* the result is absent or >= now at computation time, never earlier than  *)
(* the start date, with day-of-month <= 28; re-applying the computation to *)
(* its own result at the same or a later now never yields an earlier date  *)
(* and returns the same date while that result is not in the past.         *)
C8_Applies ==
    /\ due_out.done
    /\ due_in.period = "monthly"
    /\ due_in.interval_count > 0
    /\ Before(due_in.start, due_out.at)

C8_MonotonicIdempotent ==
    C8_Applies =>
        /\ due_out.value # ValueError
        /\ IsDate(due_out.value) =>
               /\ ~Before(due_out.value, due_out.at)
               /\ ~Before(due_out.value, due_in.start)
               /\ due_out.value.day <= 28
        /\ due_again.done =>
               /\ due_again.value # ValueError
               /\ IsDate(due_again.value) =>
                      (~Before(due_again.value, due_out.value)
                          /\ ~Before(due_again.value, due_again.at))
               /\ ~Before(due_out.value, due_again.at) => due_again.value = due_out.value

\* A bill started on the 31st in the past: its next due date is a 28th, and
\* the computation applied to that date after it has passed moves it on.
C8_Witness ==
    /\ C8_Applies /\ due_in.start.day = 31
    /\ IsDate(due_out.value) /\ due_out.value.day = 28
    /\ due_again.done /\ IsDate(due_again.value)
    /\ Before(due_out.value, due_again.value)

(* C9: investment_advice calls the LLM and the market-data summarizer only *)
(* when the profile has all of risk_tolerance, time_horizon,               *)
(* investment_amount and investment_goals; when any of them is missing it  *)
(* returns the clarification text holding the fixed question of every      *)
(* missing field and makes no market-data or LLM call.                     *)
QuestionOf(k) ==
    CASE k = "risk_tolerance" -> Q_risk_tolerance
      [] k = "time_horizon" -> Q_time_horizon
      [] k = "investment_amount" -> Q_investment_amount
      [] k = "investment_goals" -> Q_investment_goals

MissingKeys == {k \in ProfileKeys : invest_in.user_profile[k] \in {None, ""}}

C9_NoCalls ==
    /\ invest_out.llm_calls = 0
    /\ invest_out.summarize_calls = 0
    /\ invest_out.market_calls = 0

C9_ClarificationGate ==
    invest_out.called =>
        /\ ~C9_NoCalls => (invest_in.profile_type = "dict" /\ MissingKeys = {})
        /\ (invest_in.profile_type = "dict" /\ MissingKeys # {}) =>
               /\ C9_NoCalls
               /\ invest_out.raised = None
               /\ Head(invest_out.lines) = <<ClarificationHeader>>
               /\ \A k \in MissingKeys :
                      \E i \in 2..Len(invest_out.lines) :
                          invest_out.lines[i] = <<"- ", QuestionOf(k)>>
               /\ Len(invest_out.lines) = 1 + Cardinality(MissingKeys)

\* A profile that lacks only risk_tolerance gets the risk-tolerance question.
C9_Witness ==
    /\ invest_out.called
    /\ invest_in.profile_type = "dict"
    /\ MissingKeys = {"risk_tolerance"}
    /\ invest_in.user_profile["risk_tolerance"] = None
    /\ invest_in.holdings > 0
    /\ invest_out.lines = <<<<ClarificationHeader>>, <<"- ", Q_risk_tolerance>>>>
    /\ C9_NoCalls

(* C10: a request to any /api/ route whose session has no user_id, or a    *)
(* user_id that resolves to no user, is answered 401 with an error         *)
(* envelope, and the handler makes no database write, agent run, LLM call  *)
(* or outbound web call.                                                   *)
ApiRoutes ==
    {"/api/dashboard/trigger-refresh", "/api/chat", "/api/web/fetch", "/api/web/post",
     "/api/invest/advice", "/api/transactions/recent", "/api/agents/insights/run",
     "/api/agents/reminders/run", "/api/agents/reminders", "/api/agents/insights",
     "/api/agents/forecast/run", "/api/agents/forecast", "/api/dashboard/summary",
     "/api/notifications/json", "/api/transactions", "/api/dashboard/data"}

C10_AuthGate ==
    /\ resp.route \in ApiRoutes \cup {None}
    /\ (resp.route \in ApiRoutes /\ ~resp.resolves) =>
           /\ resp.status = 401
           /\ resp.error = "authentication required"
           /\ resp.db_writes = 0
           /\ resp.agent_runs = 0
           /\ resp.llm_calls = 0
           /\ resp.web_calls = 0
    /\ (db_writes > 0 \/ agent_runs > 0 \/ api_llm_calls > 0 \/ web_calls > 0) =>
           users # {}

\* A chat request with a session whose user_id resolves to no user, as the
\* second request of that session.
C10_Witness ==
    /\ resp.route = "/api/chat"
    /\ resp.session_user_id = "u2" /\ ~resp.resolves
    /\ users = {"u1"}
    /\ resp.status = 401
    /\ api_requests = 2

(* C11: every server-rendered page and every mutating form route other     *)
(* than /, /signup and /login requires an authenticated session: without   *)
(* one the handler redirects to the landing page and neither renders the   *)
(* page nor performs its action, /chat and the notification mark_read and  *)
(* dismiss actions included.                                               *)
C11_PagesRequireSession ==
    (page.route # None /\ ~page.resolves) =>
        /\ page.outcome = Redirect("index")
        /\ page.flash = None
        /\ ~page.changed

(* C12: whatever edit/delete-transaction, edit/delete-bill and             *)
(* mark-bill-paid requests the session user issues, no transaction or bill *)
(* of another user is modified or deleted; a request naming an id the user *)
(* does not own gets a not-found outcome, raises nothing and leaves all    *)
(* stored rows unchanged.                                                  *)
OwnedRowRoutes ==
    {"/transactions/<txn_id>/edit", "/transactions/<txn_id>/delete",
     "/bills/<bill_id>/edit", "/bills/<bill_id>/delete",
     "/notifications/<int:bill_id>/mark_done", "mark_bill_paid"}

NotFoundOutcome ==
    \/ page.flash \in {"Transaction not found.", "Bill not found."}
    \/ page.result = "bill not found"

C12_OwnershipIsolation ==
    /\ ~page.foreign_changed
    /\ (page.route \in OwnedRowRoutes /\ page.resolves /\ ~page.owned) =>
           /\ NotFoundOutcome
           /\ page.outcome.kind # "raise"
           /\ ~page.changed
    /\ \A r \in transactions : r.id = "t2" => r.user_id = "u2"
    /\ (page.session_user_id \in {None, "u1"} /\ page.served <= 1) =>
           /\ \E r \in transactions : r.id = "t2" /\ r.amount_cents = 200
           /\ \E r \in bills : r.id = "b2" /\ r.amount_cents = 200

\* User u1 asks to edit transaction t2 of user u2, after a request that
\* changed a row of their own.
C12_Witness ==
    /\ page.route = "/transactions/<txn_id>/edit"
    /\ page.session_user_id = "u1" /\ page.id = "t2"
    /\ page.flash = "Transaction not found."
    /\ page.served = 2
    /\ TransactionRow("t2", "u2", "income", 200, T_tea, NoCategory) \in transactions
    /\ TransactionRow("t1", "u1", "expense", 100, T_tea, NoCategory) \notin transactions

(* C14: quick-add creates one transaction row per monetary amount found in *)
(* the free text: "paid 500 for groceries and 200 for parking" gives       *)
(* exactly two expense rows of 50000 and 20000 paise, both carrying the    *)
(* text; in general as many rows are created as the text has amounts.      *)
RECURSIVE all_amounts(_)
all_amounts(text) ==
    LET match == first_amount(text)
    IN IF match = NoText THEN <<>>
       ELSE LET start == CHOOSE i \in DOMAIN text :
                             IsDigit(text[i]) /\ \A j \in 1..(i - 1) : ~IsDigit(text[j])
            IN <<match>> \o all_amounts(SubSeq(text, start + Len(match), Len(text)))

QuickAdded ==
    /\ page.route = "/transactions/quick"
    /\ page.flash = "Quick transaction added."

C14_OneRowPerAmount ==
    QuickAdded =>
        \A r \in page.new_rows :
            /\ Cardinality(page.new_rows) = Len(all_amounts(r.description))
            /\ r.description = T_paid_500_200 =>
                   {x.amount_cents : x \in page.new_rows} = {50000, 20000}

----------------------------------------------------------------------------
(* C13: AgentResult is append-only. Across insights, forecast and reminder *)
(* runs (forced or not, whatever the model answers, whether commits are    *)
(* accepted or not) every step leaves the rows already in agent_results in *)
(* place and unchanged: the table of the next state starts with the table  *)
(* of the current one, so a refreshed result is a further row. A reader    *)
(* gets a row of the agent and user it asked for whose created_at no other *)
(* such row exceeds, and gets nothing only when there is no such row.      *)
RowsKept ==
    /\ Len(agent_results') >= Len(agent_results)
    /\ SubSeq(agent_results', 1, Len(agent_results)) = agent_results

RowsAskedFor ==
    {i \in DOMAIN agent_results :
        /\ agent_results[i].user_id = agent_out.user
        /\ agent_results[i].agent_name = agent_out.agent}

ReaderGetsLatest ==
    /\ (agent_out.read.found <=> (agent_out.op = "read" /\ RowsAskedFor # {}))
    /\ (agent_out.read.found =>
           /\ \E i \in RowsAskedFor :
                  /\ agent_results[i].result_json = agent_out.read.result_json
                  /\ agent_results[i].created_at = agent_out.read.created_at
           /\ \A i \in RowsAskedFor :
                  agent_results[i].created_at <= agent_out.read.created_at)

C13_AppendOnly == [][RowsKept]_vars /\ []ReaderGetsLatest

\* A forced insights run whose commits were accepted added a row for a
\* signature that already had one, with a different value.
C13_Witness ==
    /\ agent_out.agent = "insight_agent_v1"
    /\ agent_out.force_ai
    /\ agent_out.llm = R_object
    /\ agent_out.rows_before > 0
    /\ Len(agent_results) > agent_out.rows_before
    /\ \E i \in 1..agent_out.rows_before :
          \E j \in (agent_out.rows_before + 1)..Len(agent_results) :
              /\ agent_results[i].user_id = agent_results[j].user_id
              /\ agent_results[i].agent_name = agent_results[j].agent_name
              /\ agent_results[i].input_text = agent_results[j].input_text
              /\ agent_results[i].result_json # agent_results[j].result_json

----------------------------------------------------------------------------
(* C15: the week-over-week change of _local_insights for the previous      *)
(* week's expense total P and the current week's total C is "0%" when both *)
(* are zero, "+100%" when P is zero and C is positive, and otherwise       *)
(* round((C - P) / P * 100) rendered as a signed percentage, so that       *)
(* P = 1000 and C = 1200 give "+20%".                                      *)
SignedPercentage(n) == (IF n > 0 THEN <<"+">> ELSE <<>>) \o IntText(n) \o <<"%">>

C15_SignedChange ==
    wow_out # NoText =>
        /\ (wow_in.prev = 0 /\ wow_in.this = 0 => wow_out = <<"0", "%">>)
        /\ (wow_in.prev = 0 /\ wow_in.this > 0 => wow_out = <<"+", "1", "0", "0", "%">>)
        /\ (wow_in.prev > 0 =>
               wow_out = SignedPercentage(round_change(wow_in.prev, wow_in.this)))
        /\ (wow_in.prev = 1000 /\ wow_in.this = 1200 =>
               wow_out = <<"+", "2", "0", "%">>)

----------------------------------------------------------------------------
(* C16, as stated: sanitize_ticker returns a text for every input (None    *)
(* and the empty text included) made only of characters of [A-Z0-9.-],     *)
(* sanitizing its result again changes nothing, "$aapl", "'MSFT'" and      *)
(* "goo gl" give "AAPL", "MSFT" and "GOOGL", and is_valid_ticker accepts   *)
(* exactly the texts that are sanitized results of 1 to 10 characters.     *)
SanitizedResult(s) == \A i \in DOMAIN s : IsTickerChar(s[i])

SanitizeContract ==
    ticker_out.called = "sanitize_ticker" =>
        /\ SanitizedResult(ticker_out.sanitized)
        /\ ticker_out.again = ticker_out.sanitized
        /\ (ticker_in \in {NoText, <<>>} => ticker_out.sanitized = <<>>)
        /\ (ticker_in = K_aapl => ticker_out.sanitized = <<"A", "A", "P", "L">>)
        /\ (ticker_in = K_msft => ticker_out.sanitized = <<"M", "S", "F", "T">>)
        /\ (ticker_in = K_goo_gl => ticker_out.sanitized = <<"G", "O", "O", "G", "L">>)

C16_AsStated ==
    /\ SanitizeContract
    /\ (ticker_out.called = "is_valid_ticker" =>
           (ticker_out.valid <=>
               /\ SanitizedResult(ticker_in)
               /\ Len(ticker_in) \in 1..10))

(* C16, amended: the same for sanitize_ticker; is_valid_ticker accepts a   *)
(* sanitized result exactly when it has 1 to 10 characters, and accepts a  *)
(* text as given exactly when the text, without one newline at its end if  *)
(* it has one, is a sanitized result of 1 to 10 characters.                *)
WithoutFinalNewline(s) ==
    IF s # <<>> /\ s[Len(s)] = NL THEN SubSeq(s, 1, Len(s) - 1) ELSE s

C16_SanitizeThenValidate ==
    /\ SanitizeContract
    /\ (ticker_out.called = "sanitize_ticker" =>
           (ticker_out.valid <=> Len(ticker_out.sanitized) \in 1..10))
    /\ (ticker_out.called = "is_valid_ticker" =>
           (ticker_out.valid <=>
               /\ SanitizedResult(WithoutFinalNewline(ticker_in))
               /\ Len(WithoutFinalNewline(ticker_in)) \in 1..10))

\* A text that sanitizing changed into a valid ticker, and a long one that
\* came out unchanged and invalid.
C16_Witness ==
    /\ ticker_out.called = "sanitize_ticker"
    /\ \/ /\ ticker_in = <<"$", "a", "'">>
          /\ ticker_out.sanitized = <<"A">>
          /\ ticker_out.valid
       \/ /\ ticker_in = K_eleven
          /\ ~ticker_out.valid

----------------------------------------------------------------------------
(* C17: the planning graph runs its nodes in a fixed order. At every       *)
(* moment the nodes run so far are the beginning of: analyze_profile,      *)
(* plan_research, then for scope comprehensive fetch_market_data and       *)
(* analyze_macro in either order, build_portfolio, generate_proposal, END. *)
(* So every node runs at most once, build_portfolio starts only after      *)
(* both gathering nodes returned, and a run that ended ran the whole       *)
(* sequence. For scope basic neither gathering node runs and market_data   *)
(* and macro_analysis keep the values given as input.                      *)
IsPrefix(a, b) == Len(a) <= Len(b) /\ SubSeq(b, 1, Len(a)) = a

ExpectedRuns(scope) ==
    IF scope = "comprehensive"
    THEN {<<"analyze_profile", "plan_research", first, second,
            "build_portfolio", "generate_proposal", END>> :
              first \in {"fetch_market_data", "analyze_macro"},
              second \in {"fetch_market_data", "analyze_macro"}}
         \ {<<"analyze_profile", "plan_research", n, n,
              "build_portfolio", "generate_proposal", END>> :
                n \in {"fetch_market_data", "analyze_macro"}}
    ELSE {<<"analyze_profile", "plan_research", "build_portfolio",
            "generate_proposal", END>>}

----------------------------------------------------------------------------
(* C18: the planning graph always reaches its terminal state. Whichever of *)
(* the nodes' LLM calls fail, no node raises; a node whose call failed has *)
(* the text "LLM error: ..." in its own output field once its step is      *)
(* applied (profile, research_plan, macro_analysis, portfolio, proposal;   *)
(* for fetch_market_data the llm_summary entry of market_data), and every  *)
(* run eventually executes generate_proposal and then reaches END.         *)
OutputOf(node) ==
    CASE node = "analyze_profile" -> graph.state.profile
      [] node = "plan_research" -> graph.state.research_plan
      [] node = "fetch_market_data" -> graph.state.market_data.llm_summary
      [] node = "analyze_macro" -> graph.state.macro_analysis
      [] node = "build_portfolio" -> graph.state.portfolio
      [] node = "generate_proposal" -> graph.state.proposal

BeginsWithLlmError(text) == Len(text) >= 2 /\ text[1] = "LLM" /\ text[2] = "error:"

FailuresInline ==
    /\ graph.status # "raised"
    /\ \A node \in graph.failed \ graph.finished : BeginsWithLlmError(OutputOf(node))

ReachedEnd ==
    /\ graph.status = "ended"
    /\ Len(graph.ran) >= 2
    /\ graph.ran[Len(graph.ran) - 1] = "generate_proposal"
    /\ graph.ran[Len(graph.ran)] = END

----------------------------------------------------------------------------
(* C19: unparseable LLM output is never discarded. When the response to an *)
(* insights, forecast or reminder run is not valid JSON as it stands, the  *)
(* run parses the part from the first "{" to the last "}" and carries the  *)
(* parsed value; when that part does not parse either (or there is none),  *)
(* the value the run returns holds the response text in its raw field.     *)
rfind(text, c) ==
    IF \E i \in DOMAIN text : text[i] = c
    THEN CHOOSE i \in DOMAIN text : text[i] = c /\ \A j \in (i + 1)..Len(text) : text[j] # c
    ELSE 0

BetweenBraces(text) ==
    IF find(text, "{") = 0 \/ rfind(text, "}") < find(text, "{") THEN <<>>
    ELSE SubSeq(text, find(text, "{"), rfind(text, "}"))

Answered ==
    /\ agent_out.op = "run"
    /\ agent_out.llm_calls > 0
    /\ agent_out.llm # LlmRaises

C19_NeverDiscarded ==
    (Answered /\ json_loads(agent_out.llm) = JSONDecodeError) =>
        IF json_loads(BetweenBraces(agent_out.llm)) # JSONDecodeError
        THEN agent_out.returned.ai = json_loads(BetweenBraces(agent_out.llm)).kind
        ELSE agent_out.returned.raw = agent_out.llm

\* C20: when prepare_chat_context_v2 or the provider call raises,
\* run_chat_agent_v2 returns success = False, cached = False and the error
\* text as the reply, and the call leaves chat_logs and the cache as it found
\* them; the user and assistant rows of an exchange are appended only by a
\* call whose provider call succeeded.
ErrorReply(failure) ==
    IF failure = "context" THEN <<"Error gathering financial data">> ELSE <<"API Error">>

C20_FailuresReturnCleanly ==
    chat_out.called =>
        /\ chat_out.failure # "none" =>
               /\ ~chat_out.success /\ ~chat_out.cached
               /\ chat_out.reply = ErrorReply(chat_out.failure)
               /\ chat_logs = FirstN(chat_logs, chat_out.logs_before)
               /\ Len(chat_logs) = chat_out.logs_before
               /\ chat_cache = chat_out.cache_before
        /\ Len(chat_logs) = chat_out.logs_before + 2 =>
               /\ chat_out.llm_called /\ chat_out.success /\ chat_out.failure = "none"
               /\ chat_logs[Len(chat_logs) - 1] =
                      ChatLogRow(chat_out.user, "user", chat_out.message)

\* A provider failure in the request that follows a logged exchange.
C20_Witness ==
    /\ chat_out.called /\ chat_out.calls = 2
    /\ chat_out.failure = "llm" /\ chat_out.llm_called
    /\ chat_out.logs_before = 2 /\ Len(chat_logs) = 2
    /\ chat_out.reply = <<"API Error">>

\* A failure of context gathering, before the limiter is consulted.
C20_ContextFailureSeen ==
    /\ chat_out.called /\ chat_out.failure = "context"
    /\ chat_out.limiter = "not consulted" /\ ~chat_out.llm_called


\* C22: _compute_next_due_from leaves its loop for every start date, period
\* and interval_count >= 0, interval_count = 0 included: the body runs at most
\* max_iterations (1200) times, and a date that is still in the past when the
\* loop ends is returned as None, never as a past date.
Terminated(out) ==
    /\ out.returned
    /\ out.i <= max_iterations
    /\ IsDate(out.value) => ~Before(out.value, out.at)

C22_BoundedLoop ==
    /\ due_out.done => Terminated(due_out)
    /\ due_again.done => Terminated(due_again)
    /\ (due_out.done /\ due_out.i = max_iterations) => due_out.value = NoDate

\* interval_count = 0 on a past start date: the date never moves, the loop
\* stops at the bound, and the result is None.
C22_Witness ==
    /\ due_out.done /\ due_in.interval_count = 0 /\ due_in.period = "monthly"
    /\ Before(due_in.start, due_out.at)
    /\ due_out.returned /\ due_out.i = max_iterations /\ due_out.value = NoDate

\* C23: with period 'one-time' or no period, _compute_next_due_from returns
\* the start date itself when it is not in the past and None otherwise; with
\* any period other than 'one-time', 'monthly', 'yearly' or none it returns
\* None for every start date, past or future.
C23_PeriodSemantics ==
    due_out.done =>
        /\ due_in.period \in {"one-time", None} =>
               due_out.value = IF Before(due_in.start, due_out.at)
                               THEN NoDate ELSE due_in.start
        /\ due_in.period \notin {"one-time", "monthly", "yearly", None} =>
               due_out.value = NoDate

\* The part of C23 the code satisfies: the one-time rule, and None for another
\* period when the start date is in the past.
C23_PastOnly ==
    due_out.done =>
        /\ due_in.period \in {"one-time", None} =>
               due_out.value = IF Before(due_in.start, due_out.at)
                               THEN NoDate ELSE due_in.start
        /\ (due_in.period \notin {"one-time", "monthly", "yearly", None}
                /\ Before(due_in.start, due_out.at)) =>
               due_out.value = NoDate

\* C24: every run of run_reminder_agent_for_user, forced or not, whatever
\* becomes of the key, the limiter and the LLM call, leaves exactly one new
\* agent_results row, of agent 'reminder_agent_v1', holding what it returned.
ReminderRan == agent_out.op = "run" /\ agent_out.agent = "reminder_agent_v1"

C24_EveryRunPersists ==
    ReminderRan =>
        /\ Len(agent_results) = agent_out.rows_before + 1
        /\ agent_results[Len(agent_results)].agent_name = "reminder_agent_v1"
        /\ agent_results[Len(agent_results)].user_id = agent_out.user
        /\ agent_results[Len(agent_results)].created_at = agent_out.at

\* C25: an unforced run_insights_agent_for_user that finds a row of the same
\* user, agent 'insight_agent_v1' and context signature no older than the TTL
\* (12 hours) returns the newest such row's result as it is, adds no row and
\* makes no LLM call; when there is no such row, or the newest is older than
\* the TTL, it returns the deterministic insights and adds one row holding
\* them (none when the database refuses the commit).
RowsBefore == SubSeq(agent_results, 1, agent_out.rows_before)

\* The newest of the rows at the positions S: the latest created_at, the
\* later insert among equals.
NewestOf(table, S) ==
    CHOOSE i \in S : \A j \in S :
        \/ table[j].created_at < table[i].created_at
        \/ (table[j].created_at = table[i].created_at /\ j <= i)

InsightSignature ==
    InputText(compute_insight_signature(
                  gather_insight_context(agent_out.user, transactions, categories)), "")

SameInsightRows ==
    {i \in DOMAIN RowsBefore :
        /\ RowsBefore[i].user_id = agent_out.user
        /\ RowsBefore[i].agent_name = "insight_agent_v1"
        /\ RowsBefore[i].input_text = InsightSignature}

FreshInsightRows ==
    {i \in SameInsightRows :
        agent_out.at - RowsBefore[i].created_at <= INSIGHT_AGENT_CACHE_TTL_HOURS * Hour}

UnforcedInsightsRun ==
    /\ agent_out.op = "run" /\ agent_out.agent = "insight_agent_v1"
    /\ ~agent_out.force_ai /\ ~agent_out.raised

C25_StaleSeen ==
    /\ UnforcedInsightsRun /\ SameInsightRows # {} /\ FreshInsightRows = {}
    /\ Len(agent_results) = agent_out.rows_before + 1

\* C29: a forced run_forecast_agent_for_user stores the heuristic row before
\* it looks for the key or calls the LLM, so a forced run without key or with
\* a failing call leaves the heuristic row as the newest of its signature; an
\* unforced run within the TTL (24 hours) then returns the heuristic result
\* although an AI result of the same signature is stored.
ForecastSignature ==
    InputText(compute_forecast_signature(
                  gather_forecast_context(agent_out.user, transactions)), "")

SameForecastRows(table) ==
    {i \in DOMAIN table :
        /\ table[i].user_id = agent_out.user
        /\ table[i].agent_name = "forecast_agent_v1"
        /\ table[i].input_text = ForecastSignature}

ForecastRan ==
    /\ agent_out.op = "run" /\ agent_out.agent = "forecast_agent_v1" /\ ~agent_out.raised

\* A forced run that got no answer: no key, or the completion call raised.
ForcedWithoutAnswer ==
    /\ ForecastRan /\ agent_out.force_ai
    /\ ~agent_out.api_key \/ (agent_out.llm_calls = 1 /\ agent_out.llm = LlmRaises)

HasAiResult(table, S) == \E i \in S : table[i].result_json.ai # None

C29_HeuristicShadowsAi ==
    /\ (ForcedWithoutAnswer /\ agent_out.commit_local) =>
           /\ Len(agent_results) = agent_out.rows_before + 1
           /\ agent_results[NewestOf(agent_results, SameForecastRows(agent_results))] =
                  AgentResultRow(agent_out.user, "forecast_agent_v1", ForecastSignature,
                                 AgentValue("heuristic"), agent_out.at)
    /\ (ForecastRan /\ ~agent_out.force_ai) =>
           LET fresh == {i \in SameForecastRows(RowsBefore) :
                            agent_out.at - RowsBefore[i].created_at
                                <= FORECAST_AGENT_CACHE_TTL_HOURS * Hour}
           IN (fresh # {}
                 /\ RowsBefore[NewestOf(RowsBefore, fresh)].result_json = AgentValue("heuristic")) =>
                  /\ agent_out.returned = AgentValue("heuristic")
                  /\ agent_out.llm_calls = 0
                  /\ Len(agent_results) = agent_out.rows_before

\* An AI result an hour old, a forced run without key, then an unforced run
\* twelve hours later: it returns the heuristic result.
C29_Witness ==
    /\ ForecastRan /\ ~agent_out.force_ai /\ agent_out.calls = 2
    /\ Len(RowsBefore) = 3
    /\ HasAiResult(RowsBefore, SameForecastRows(RowsBefore))
    /\ RowsBefore[3].result_json = AgentValue("heuristic")
    /\ agent_out.at - RowsBefore[3].created_at = AgentTickHours * Hour
    /\ agent_out.returned = AgentValue("heuristic")
    /\ agent_out.returned.ai = None

\* C26: after any sequence of bill create, bill edit and mark-paid
\* operations every stored bill has due_date equal to next_due, both None or
\* both the same datetime.
C26_DueDateMirrorsNextDue == \A b \in bills : b.due_date = b.next_due

\* C30: an edit whose amount field is missing or does not parse leaves a
\* transaction's amount_cents as it was (edit_transaction), and sets a bill's
\* amount_cents to 0 while flashing 'Bill updated.' (edit_bill).
Unparseable(amount) == amount = NoText \/ ~IsFloatText(amount)

EditedWithoutAmount(route, flash) ==
    /\ page'.served = page.served + 1
    /\ page'.route = route /\ page'.flash = flash
    /\ Unparseable(page'.form_amount)

EditKeepsOrZeroes ==
    /\ EditedWithoutAmount("/transactions/<txn_id>/edit", "Transaction updated.") =>
           \A t \in transactions :
               (t.id = page'.id /\ t.user_id = page'.session_user_id) =>
                   \E u \in transactions' : u.id = t.id /\ u.amount_cents = t.amount_cents
    /\ EditedWithoutAmount("/bills/<bill_id>/edit", "Bill updated.") =>
           /\ \E b \in bills : b.id = page'.id /\ b.user_id = page'.session_user_id
           /\ \A b \in bills' :
                  (b.id = page'.id /\ b.user_id = page'.session_user_id) =>
                      b.amount_cents = 0

C30_EditAmounts == [][EditKeepsOrZeroes]_vars

\* A bill of 100 edited with the amount "x": stored as 0, 'Bill updated.'.
C30_Witness ==
    /\ page.route = "/bills/<bill_id>/edit" /\ page.flash = "Bill updated."
    /\ page.form_amount = <<"x">> /\ page.id = "b1"
    /\ \E b \in bills : b.id = "b1" /\ b.amount_cents = 0

\* A transaction of 100 edited without an amount field: still 100.
C30_TransactionKept ==
    /\ page.route = "/transactions/<txn_id>/edit" /\ page.flash = "Transaction updated."
    /\ page.form_amount = NoText /\ page.id = "t1" /\ page.served = 1
    /\ \E t \in transactions : t.id = "t1" /\ t.amount_cents = 100

\* C27: get_or_create_category resolves a name to a category of the user's
\* own, else to a global one of that name, else inserts a new one owned by
\* the user. A call that no other call's insert overtakes never inserts a
\* name the user or the global set already has; the lookups and the insert
\* are separate statements, so two overlapping calls of one user for one new
\* name can both insert, and the table then holds the name twice.
Ids(rows) == {c.id : c \in rows}

ResolvesInOrder(call) ==
    LET own == {c \in call.seen : c.user_id = call.user /\ c.name = call.name}
        global == {c \in call.seen : c.user_id = None /\ c.name = call.name}
    IN /\ call.name = <<>> => (call.returned = NoCategory /\ ~call.inserted)
       /\ (call.name # <<>> /\ own # {}) =>
              (call.returned \in Ids(own) /\ ~call.inserted)
       /\ (call.name # <<>> /\ own = {} /\ global # {}) =>
              (call.returned \in Ids(global) /\ ~call.inserted)
       /\ call.inserted =>
              /\ CategoryRow(call.returned, call.user, call.name) \in categories
              /\ call.returned \notin Ids(call.seen)
       /\ (call.inserted /\ ~call.overtaken) => (own = {} /\ global = {})

\* The names a user has twice: two rows of the user's own with one name.
DuplicateRows ==
    {pair \in categories \X categories :
        /\ pair[1].id # pair[2].id
        /\ pair[1].name = pair[2].name
        /\ pair[1].user_id = pair[2].user_id}

C27_GetOrCreate ==
    /\ \A th \in Threads : goc[th].at = "returned" => ResolvesInOrder(goc[th])
    /\ \A pair \in DuplicateRows :
           \E th \in Threads :
               /\ goc[th].inserted /\ goc[th].overtaken
               /\ goc[th].returned \in {pair[1].id, pair[2].id}

\* Two overlapping calls of u1 for the new name "tea": both inserted.
C27_Witness ==
    /\ \A th \in Threads :
           /\ goc[th].at = "returned" /\ goc[th].inserted
           /\ goc[th].user = "u1" /\ goc[th].name = T_tea
    /\ goc["t1"].returned # goc["t2"].returned
    /\ Cardinality({c \in categories : c.user_id = "u1" /\ c.name = T_tea}) = 2

\* The second of two calls made one after the other finds the first's row.
C27_SequentialReuse ==
    /\ \A th \in Threads : goc[th].at = "returned" /\ goc[th].user = "u1" /\ goc[th].name = T_tea
    /\ goc["t1"].inserted /\ ~goc["t2"].inserted
    /\ goc["t2"].returned = goc["t1"].returned

----------------------------------------------------------------------------
(* C21: run_chat_agent makes at most 3 completion calls in one invocation.  *)
(* It goes on to another call, after a sleep that starts at 1 second and    *)
(* doubles, only when the error text contains one of '429', 'rate limit',   *)
(* 'too many', 'server error' (in any case of letters); any other error     *)
(* ends the loop at that call with no sleep after it; and every invocation  *)
(* comes back with a text.                                                  *)

ErrorText(o) == IF o.kind = "error" THEN o.text ELSE AttributeErrorText

Failed(o) == o.kind = "error" \/ o.text = NoText

HasSignature(e) ==
    \E s \in {S_429, S_rate_limit, S_too_many, S_server_error} : Contains(ascii_lower(e), s)

Retried(o) == Failed(o) /\ HasSignature(ErrorText(o))

RECURSIVE Doubling(_)
Doubling(n) == IF n = 0 THEN <<>> ELSE Append(Doubling(n - 1), 2 ^ (n - 1))

ChatAgentRan == chat1.called /\ chat1.status = 200

C21_BoundedRetries ==
    ChatAgentRan =>
        LET n == chat1.attempts
            seen == chat1.consumed
        IN /\ n <= ChatAttempts
           /\ chat1.ended \in {"no key", "context", "setup", "answered", "failed", "exhausted"}
           /\ chat1.reply # <<>>
           /\ \A i \in 1..(n - 1) : Retried(seen[i])
           /\ chat1.sleeps = Doubling(Cardinality({i \in 1..n : Retried(seen[i])}))
           /\ (n > 0 /\ Failed(seen[n]) /\ ~Retried(seen[n])) =>
                  /\ chat1.ended = "failed"
                  /\ Len(chat1.sleeps) = n - 1
           /\ (n > 0 /\ ~Failed(seen[n])) => chat1.ended = "answered"
           /\ (n = 0) => chat1.sleeps = <<>>

\* Three calls that all fail with a signature: sleeps of 1, 2 and 4 seconds.
C21_Witness ==
    /\ ChatAgentRan
    /\ chat1.attempts = ChatAttempts
    /\ chat1.ended = "exhausted"
    /\ chat1.sleeps = <<1, 2, 4>>

\* An error without a signature on the second call ends the loop there.
C21_FailedAtOnce ==
    /\ ChatAgentRan
    /\ chat1.attempts = 2
    /\ chat1.ended = "failed"
    /\ chat1.consumed[2] = Error(E_ratelimit)
    /\ chat1.sleeps = <<1>>

\* An answer without content is caught and returned as a failure text.
C21_NoContentReturned ==
    /\ ChatAgentRan
    /\ chat1.consumed = <<Answer(NoText)>>
    /\ chat1.reply = <<"OpenAI request failed: ">> \o AttributeErrorText

----------------------------------------------------------------------------
(* C28: /api/chat commits the user's ChatLog row before run_chat_agent      *)
(* reads the history, so when that commit succeeds and the history is read  *)
(* the messages sent to the model end with the new message twice: as the    *)
(* newest history entry and as the final user message.                      *)

HistoryReplayed == ChatAgentRan /\ chat1.history_ok

C28_OnceWhenNotStored ==
    (HistoryReplayed /\ ~chat1.log1_ok /\ chat1.logs_before = 0) =>
        chat1.messages = build_chat_prompt(chat1.message, <<>>)

============================================================================
